--------------------------- MODULE ServicesProofs ---------------------------
(* Proofs about Services, for any number of calls, connections and              *)
(* publications: that a call returns the response to its own request, that no   *)
(* connection outlives its publication, and that an unadvertised service is not *)
(* called.  A link carries one message at a time: it is in one place, and is    *)
(* that of the link's current call.                                             *)
EXTENDS Services, FilterProofs

-----------------------------------------------------------------------------
(* The types, and the states of a thread.                                       *)

\* A thread that has received something, and is to deal with it.
Holding == {"header", "error", "ok", "failed", "body", "finish"}

\* The call of such a thread has not been queued.
Unqueued == {"idle", "initialize", "push"}

\* The thread knows that its link has been dropped.
Clearing == {"clear", "cancel", "yield", "sweep", "remove"}

Steps == Unqueued \cup Holding \cup Clearing \cup {"wait", "take", "write", "read", "drop", "returned"}

UserAt == {"idle", "register", "unregister", "drop", "drop links", "remove", "release"}

CallType == [finished : BOOLEAN, call_finished : BOOLEAN, success : BOOLEAN, late : BOOLEAN,
             resp : Call \cup {None}, result : Call \cup {None}]
LinkType == [dropped : BOOLEAN, listening : BOOLEAN, header_read : BOOLEAN, cleared : BOOLEAN, raced : BOOLEAN,
             reading : {"none", "header", "response"}, reader : Thread \cup {None}, mutex : Thread \cup {None},
             queue : Seq(Call), current : Call \cup {None}]
PubType == [dropped_ : BOOLEAN, client_links_ : SUBSET Link, destroyed : BOOLEAN]
EntryType == [pub : Pub, link : Link, call : Call]

ThreadType == [at : Steps, link : Link \cup {None}, call : Call \cup {None}]
PeerType == [parent : Pub \cup {None}, reading : {"none", "header", "request"}]
UpType == {"header", "request"} \X (Call \cup {None})
DownType == {"header", "error", "ok", "failed", "body"} \X (Call \cup {None})

WireTypes ==
    /\ regime \in Regime /\ cut \subseteq Link /\ client_closed \subseteq Link /\ server_closed \subseteq Link
    /\ up \in [Link -> Seq(UpType)] /\ down \in [Link -> Seq(DownType)]

ClientTypes ==
    /\ thread \in [Thread -> ThreadType]
    /\ calls \in [Call -> CallType]
    /\ link \in [Link -> LinkType]
    /\ server_link_ \in 0 .. links /\ links \in 0 .. regime.links /\ service_server_links_ \subseteq 1 .. links
    /\ shutting_down_ \in BOOLEAN

ServerTypes ==
    /\ advertised \in Pub \cup {None} /\ registered \in BOOLEAN /\ pubs \in 0 .. regime.pubs
    /\ pub \in [Pub -> PubType]
    /\ peer \in [Link -> PeerType]
    /\ callbacks \in Seq(EntryType) /\ serving \in EntryType \cup {Nobody}
    /\ server_poll \in [at : {"idle", "check", "add", "release", "request", "process"}, pub : Pub \cup {None},
                        link : Link \cup {None}, call : Call \cup {None}]
    /\ user \in [at : UserAt, pub : Pub \cup {None}]
    /\ unadvertised \subseteq Pub /\ late \subseteq Link /\ broken \subseteq Link

Types == WireTypes /\ ClientTypes /\ ServerTypes

-----------------------------------------------------------------------------
(* The client: calls, their threads and the queues of the links.                *)

\* A call that the link has yet to answer.
Charged(k, l) == link[l].current = k \/ \E i \in DOMAIN link[l].queue : link[l].queue[i] = k

\* Where a thread is, its link is made and listened to, and dropped when it clears it.
ThreadOK(t) ==
    LET th == thread[t] IN
    /\ th.at \notin {"idle", "returned"} => th.link \in Link
    /\ th.at = "idle" => th.link = None
    /\ th.at \notin {"idle", "returned", "initialize"} /\ (t \in Call \/ th.at # "drop") => link[th.link].listening
    /\ th.at = "initialize" => t \in Call /\ th.link \in 1 .. links /\ ~link[th.link].listening
    /\ th.at \in Clearing => link[th.link].dropped
    /\ th.at \in {"cancel", "yield"} =>
           /\ th.call \in Call
           /\ thread[th.call].link = th.link /\ thread[th.call].at \notin Unqueued

CallOK(k) ==
    /\ calls[k].resp \in {None, k} /\ calls[k].result \in {None, k}
    /\ calls[k].call_finished => thread[k].at = "returned"
    /\ calls[k].finished => thread[k].at \notin Unqueued
    /\ calls[k].late => thread[k].at = "returned" /\ thread[k].link \in Link /\ link[thread[k].link].raced

\* A link that a call is charged to is that of its thread.
ChargedOK(k, l) ==
    /\ thread[k].link = l /\ thread[k].at \notin Unqueued
    /\ thread[k].at = "returned" => calls[k].finished
    /\ calls[k].finished => link[l].dropped

QueueOK(l) ==
    /\ \A i, j \in DOMAIN link[l].queue : link[l].queue[i] = link[l].queue[j] => i = j
    /\ \A i \in DOMAIN link[l].queue : link[l].queue[i] # link[l].current
    /\ ~link[l].listening => link[l].queue = <<>> /\ link[l].current = None /\ ~link[l].header_read
    /\ link[l].mutex # None =>
           /\ thread[link[l].mutex].link = l /\ thread[link[l].mutex].at \in {"cancel", "yield", "sweep"}
           /\ thread[link[l].mutex].at # "sweep" => link[l].queue # <<>>

\* A link whose drop overtook nobody has nobody left between two sections.
DropOK(l) ==
    /\ link[l].raced => link[l].dropped
    /\ link[l].dropped /\ ~link[l].raced =>
           \A t \in Thread : thread[t].link = l => thread[t].at \notin (Holding \ {"error"}) \cup {"take", "write"}

LinksMade ==
    /\ \A l \in Link : link[l].listening => l <= links
    /\ \A k, j \in Call : thread[k].at = "initialize" /\ thread[j].at = "initialize" /\ thread[k].link = thread[j].link
           => k = j
    /\ server_link_ # None => link[server_link_].listening

Calling ==
    /\ \A t \in Thread : ThreadOK(t)
    /\ \A k \in Call : CallOK(k)
    /\ \A k \in Call, l \in Link : Charged(k, l) => ChargedOK(k, l)
    /\ \A l \in Link : QueueOK(l) /\ DropOK(l)
    /\ LinksMade

-----------------------------------------------------------------------------
(* The message a link carries: it is written, read by the poll thread of the    *)
(* server, queued, served, on its way back or held by a thread of the client.   *)

Polling(l) == server_poll.link = l /\ server_poll.at \in {"check", "add", "request", "process"}
Queued(l) == \E i \in DOMAIN callbacks : callbacks[i].link = l
AtServer(l) == Queued(l) \/ serving.link = l
Holds(t, l) == thread[t].link = l /\ thread[t].at \in Holding
Back(l) == down[l] # <<>> \/ \E t \in Thread : Holds(t, l)

InOnePlace(l) ==
    /\ up[l] # <<>> => ~Polling(l) /\ ~AtServer(l) /\ ~Back(l)
    /\ Polling(l) => ~AtServer(l) /\ ~Back(l)
    /\ AtServer(l) => ~Back(l)
    /\ serving.link = l => ~Queued(l)
    /\ \A t, u \in Thread : Holds(t, l) /\ Holds(u, l) => t = u

\* The header has come back to the client.
Ready(l) ==
    /\ peer[l].parent # None /\ down[l] # <<<<"header", None>>>>
    /\ \A t \in Thread : thread[t].link = l => thread[t].at # "header"

UpOK(l) ==
    \/ up[l] = <<>>
    \/ up[l] = <<<<"header", None>>>> /\ peer[l].reading = "header"
    \/ up[l] = <<<<"request", link[l].current>>>> /\ link[l].current # None

PeerOK(l) ==
    /\ peer[l].reading = "header" => peer[l].parent = None
    /\ peer[l].reading = "request" => peer[l].parent # None
    /\ ~link[l].listening => peer[l] = NoPeer /\ up[l] = <<>> /\ ~Polling(l) /\ ~AtServer(l) /\ ~Back(l)
    /\ Polling(l) =>
           IF server_poll.at \in {"check", "add"} THEN peer[l].parent = None
           ELSE server_poll.call = link[l].current /\ link[l].current # None

EntryOK(c, l) ==
    c.link = l => c.call = link[l].current /\ c.pub = peer[l].parent

DownOK(l) ==
    \/ down[l] = <<>>
    \/ down[l] = <<<<"header", None>>>> /\ link[l].current = None /\ peer[l].parent # None
    \/ down[l] = <<<<"error", None>>>> /\ link[l].current = None /\ peer[l].parent = None
    \/ /\ link[l].current # None
       /\ \/ down[l] = <<<<"body", link[l].current>>>>
          \/ \E o \in {"ok", "failed"} : down[l] = <<<<o, link[l].current>>, <<"body", link[l].current>>>>

HolderOK(t, l) ==
    Holds(t, l) =>
        IF thread[t].at \in {"ok", "failed"}
        THEN /\ link[l].current # None /\ down[l] = <<<<"body", link[l].current>>>>
             /\ link[l].reading = "none"
        ELSE /\ down[l] = <<>>
             /\ thread[t].at = "header" => link[l].current = None /\ peer[l].parent # None
             /\ thread[t].at = "error" => link[l].current = None /\ peer[l].parent = None
             /\ thread[t].at = "body" => thread[t].call = link[l].current /\ link[l].current # None
             /\ thread[t].at = "finish" => link[l].current # None

WriterOK(t, l) ==
    /\ thread[t].link = l /\ thread[t].at \in {"take", "write"} => Ready(l)
    /\ thread[t].link = l /\ thread[t].at = "write" =>
           /\ link[l].current # None
           /\ up[l] = <<>> /\ ~Polling(l) /\ ~AtServer(l) /\ ~Back(l)
           /\ \A u \in Thread : thread[u].link = l /\ thread[u].at = "write" => u = t

Carried(l) ==
    /\ InOnePlace(l)
    /\ UpOK(l)
    /\ PeerOK(l)
    /\ \A i \in DOMAIN callbacks : EntryOK(callbacks[i], l)
    /\ EntryOK(serving, l)
    /\ DownOK(l)
    /\ \A t \in Thread : HolderOK(t, l) /\ WriterOK(t, l)
    /\ link[l].header_read \/ link[l].current # None => Ready(l)

QueuedOnce == \A i, j \in DOMAIN callbacks : callbacks[i].link = callbacks[j].link => i = j

-----------------------------------------------------------------------------
(* The publications.                                                            *)

\* drop() has been called for the publication, and its connections are dropped.
Past(p) == p \in unadvertised \/ (user.pub = p /\ user.at \in {"remove", "release"})

UserOK ==
    /\ user.at = "idle" <=> user.pub = None
    /\ user.at \notin {"idle", "register"} => advertised = None
    /\ user.at \in {"drop links", "remove", "release"} => pub[user.pub].dropped_
    /\ advertised <= pubs /\ user.pub <= pubs

PollOK ==
    /\ server_poll.at = "idle" => server_poll = Nowhere
    /\ server_poll.at \in {"check", "add", "release", "process"} => server_poll.pub # None
    /\ server_poll.at \in {"check", "add", "request", "process"} => server_poll.link # None
    /\ server_poll.at = "process" => server_poll.pub = peer[server_poll.link].parent
    /\ server_poll.pub <= pubs

PubOK(p) ==
    /\ pub[p].destroyed => p \notin {advertised, user.pub, server_poll.pub} /\ pub[p].client_links_ = {}
    /\ pub[p].destroyed \/ p \in unadvertised => pub[p].dropped_
    /\ pub[p].dropped_ => p <= pubs
    /\ Past(p) => pub[p].client_links_ \subseteq late

ParentOK(l) ==
    /\ peer[l].parent <= pubs
    /\ peer[l].parent # None /\ ~Dropped(l) => l \in pub[peer[l].parent].client_links_
    /\ l \in broken => Dropped(l)

Published ==
    /\ UserOK /\ PollOK
    /\ \A p \in Pub : PubOK(p)
    /\ \A l \in Link : ParentOK(l)

-----------------------------------------------------------------------------
IInv == Types /\ Calling /\ (\A l \in Link : Carried(l)) /\ QueuedOnce /\ Published
-----------------------------------------------------------------------------
(* The names, and what a state changes to.                                      *)

\* The names of calls, links and publications are positive numbers.
LEMMA Names ==
  /\ Call \subseteq Nat \ {0} /\ Link \subseteq Nat \ {0} /\ Pub \subseteq Nat \ {0}
  /\ Poll \in Thread /\ User \in Thread /\ Call \subseteq Thread /\ Thread \subseteq Int
  /\ Poll \notin Call /\ User \notin Call /\ Poll # User /\ None \notin Thread /\ None \notin Link
  /\ None \notin Call /\ None \notin Pub
<1>1. Call \subseteq Nat \ {0}
  BY ServiceAssumption DEF Call
<1>2. Link \subseteq Nat \ {0}
  BY ServiceAssumption DEF Link
<1>3. Pub \subseteq Nat \ {0}
  BY ServiceAssumption DEF Pub
<1> QED BY <1>1, <1>2, <1>3 DEF Thread, Poll, User, None

\* The links that have been made are links, and the bounds bind.
LEMMA Made ==
  ASSUME WireTypes, ClientTypes
  PROVE  /\ links \in Nat /\ 1 .. links \subseteq Link /\ 1 .. regime.calls \subseteq Call
         /\ links < regime.links => links + 1 \in Link
         /\ server_link_ # None => server_link_ \in 1 .. links
<1>1. regime.links \in Nat /\ regime.calls \in Nat
  BY ServiceAssumption DEF WireTypes
<1>2. 1 .. regime.links \subseteq Link /\ 1 .. regime.calls \subseteq Call
  BY DEF Link, Call, WireTypes
<1>3. links \in 0 .. regime.links /\ server_link_ \in 0 .. links
  BY DEF ClientTypes
<1>4. links \in Nat /\ links <= regime.links
  BY <1>1, <1>3
<1>5. 1 .. links \subseteq 1 .. regime.links
  BY <1>1, <1>4
<1>6. links < regime.links => links + 1 \in 1 .. regime.links
  BY <1>1, <1>4
<1>7. server_link_ # None => server_link_ \in 1 .. links
  BY <1>3, <1>4 DEF None
<1> QED BY <1>2, <1>4, <1>5, <1>6, <1>7

\* A thread that rests is idle, or a caller that reads or waits.
LEMMA Resting ==
  ASSUME ClientTypes, NEW t \in Thread, thread[t].link \in Link, Rest(t)
  PROVE  \E r \in ThreadType :
           /\ thread' = [thread EXCEPT ![t] = r]
           /\ IF t \in Call THEN r.at \in {"read", "wait"} /\ r.link = thread[t].link /\ r.call = None ELSE r = Idle
<1>1. t \in Call <=> t \notin {Poll, User}
  BY Names DEF Thread
<1>2. Idle \in ThreadType
  BY DEF Idle, ThreadType, Steps, Unqueued
<1>3. CASE t \in {Poll, User}
  BY <1>1, <1>2, <1>3 DEF Rest
<1>4. CASE t \notin {Poll, User}
  <2> DEFINE r == [at |-> IF link[On(t)].reader = t THEN "read" ELSE "wait", link |-> On(t), call |-> None]
  <2>1. r \in ThreadType /\ r.at \in {"read", "wait"} /\ r.link = thread[t].link /\ r.call = None
    BY DEF On, ThreadType, Steps
  <2>2. thread' = [thread EXCEPT ![t] = r]
    BY <1>4 DEF Rest
  <2> HIDE DEF r
  <2> QED BY <2>1, <2>2, <1>1, <1>4
<1> QED BY <1>3, <1>4

\* A thread that leaves readTransport() changes nothing but the reader of the link.
LEMMA Leaving ==
  ASSUME NEW t, NEW s \in LinkType
  PROVE  /\ Leave(t, s) \in LinkType
         /\ Leave(t, s).dropped = s.dropped /\ Leave(t, s).listening = s.listening
         /\ Leave(t, s).header_read = s.header_read /\ Leave(t, s).raced = s.raced
         /\ Leave(t, s).reading = s.reading /\ Leave(t, s).mutex = s.mutex
         /\ Leave(t, s).queue = s.queue /\ Leave(t, s).current = s.current
<1>1. CASE s.reader = t /\ t = Poll
  BY <1>1 DEF Leave, LinkType
<1>2. CASE ~ (s.reader = t /\ t = Poll)
  BY <1>2 DEF Leave
<1> QED BY <1>1, <1>2
-----------------------------------------------------------------------------
(* What a step that does not move the message of a link keeps.                  *)

LEMMA CarriedKept ==
  ASSUME NEW l \in Link, Carried(l),
         up'[l] = up[l], down'[l] = down[l], peer'[l] = peer[l],
         link'[l].current = link[l].current, link'[l].header_read => link[l].header_read,
         ~link'[l].listening => ~link[l].listening,
         \A t \in Thread : thread'[t].link = l /\ thread'[t].at \in {"ok", "failed"} => link'[l].reading = link[l].reading,
         \A t \in Thread : thread'[t].link = l /\ thread'[t].at \in Holding \cup {"take", "write"} =>
             thread'[t] = thread[t] \/ (thread'[t].at = "take" /\ Ready(l)),
         Polling(l)' => server_poll' = server_poll,
         \A i \in DOMAIN callbacks' : callbacks'[i].link = l => \E j \in DOMAIN callbacks : callbacks[j] = callbacks'[i],
         serving'.link = l => serving' = serving
  PROVE  Carried(l)'
<1>1. \A t \in Thread : Holds(t, l)' => Holds(t, l) /\ thread'[t] = thread[t]
  BY DEF Holds, Holding
<1>2. (Back(l)' => Back(l)) /\ (Queued(l)' => Queued(l)) /\ (serving'.link = l => serving.link = l)
  BY <1>1 DEF Back, Queued
<1>3. (AtServer(l)' => AtServer(l)) /\ (Polling(l)' => Polling(l))
  BY <1>2 DEF AtServer, Polling
<1>4. Ready(l) => Ready(l)'
  BY DEF Ready, Holding
<1>5. InOnePlace(l)'
  BY <1>1, <1>2, <1>3 DEF Carried, InOnePlace
<1>6. UpOK(l)'
  BY DEF Carried, UpOK
<1>7. PeerOK(l)'
  <2>1. PeerOK(l)
    BY DEF Carried
  <2>2. ~link'[l].listening => peer'[l] = NoPeer /\ up'[l] = <<>> /\ ~Polling(l)' /\ ~AtServer(l)' /\ ~Back(l)'
    BY <2>1, <1>2, <1>3 DEF PeerOK
  <2>3. Polling(l)' => IF server_poll'.at \in {"check", "add"} THEN peer'[l].parent = None
                       ELSE server_poll'.call = link'[l].current /\ link'[l].current # None
    BY <2>1, <1>3 DEF PeerOK
  <2> QED BY <2>1, <2>2, <2>3 DEF PeerOK
<1>8. \A i \in DOMAIN callbacks' : EntryOK(callbacks[i], l)'
  <2>1. \A i \in DOMAIN callbacks : EntryOK(callbacks[i], l)
    BY DEF Carried
  <2> QED BY <2>1 DEF EntryOK
<1>9. EntryOK(serving, l)'
  <2>1. EntryOK(serving, l)
    BY DEF Carried
  <2> QED BY <2>1 DEF EntryOK
<1>10. DownOK(l)'
  <2>1. DownOK(l)
    BY DEF Carried
  <2> QED BY <2>1 DEF DownOK
<1>11. ASSUME NEW t \in Thread PROVE HolderOK(t, l)' /\ WriterOK(t, l)'
  <2>1. HolderOK(t, l) /\ WriterOK(t, l)
    BY DEF Carried
  <2>2. HolderOK(t, l)'
    <3> SUFFICES ASSUME Holds(t, l)'
                 PROVE  IF thread[t].at \in {"ok", "failed"}
                        THEN /\ link'[l].current # None /\ down'[l] = <<<<"body", link'[l].current>>>>
                             /\ link'[l].reading = "none"
                        ELSE /\ down'[l] = <<>>
                             /\ thread[t].at = "header" => link'[l].current = None /\ peer'[l].parent # None
                             /\ thread[t].at = "error" => link'[l].current = None /\ peer'[l].parent = None
                             /\ thread[t].at = "body" => thread[t].call = link'[l].current /\ link'[l].current # None
                             /\ thread[t].at = "finish" => link'[l].current # None
      BY <1>1 DEF HolderOK
    <3>1. Holds(t, l) /\ thread'[t] = thread[t]
      BY <1>1
    <3> QED BY <2>1, <3>1 DEF HolderOK, Holds
  <2>3. thread'[t].link = l /\ thread'[t].at \in {"take", "write"} => Ready(l)'
    BY <2>1, <1>4 DEF WriterOK
  <2>4. thread'[t].link = l /\ thread'[t].at = "write" =>
           /\ link'[l].current # None
           /\ up'[l] = <<>> /\ ~Polling(l)' /\ ~AtServer(l)' /\ ~Back(l)'
    BY <2>1, <1>2, <1>3 DEF WriterOK
  <2>5. thread'[t].link = l /\ thread'[t].at = "write" =>
           \A u \in Thread : thread'[u].link = l /\ thread'[u].at = "write" => u = t
    BY <2>1 DEF WriterOK
  <2> QED BY <2>2, <2>3, <2>4, <2>5 DEF WriterOK
<1>12. link'[l].header_read \/ link'[l].current # None => Ready(l)'
  BY <1>4 DEF Carried
<1> QED BY <1>5, <1>6, <1>7, <1>8, <1>9, <1>10, <1>11, <1>12 DEF Carried

\* Between two sections of a call on the link: a drop overtakes it.
Busy == (Holding \ {"error"}) \cup {"take", "write"}

CallersStay ==
    \A k \in Call : thread[k].at \notin Unqueued => thread'[k].link = thread[k].link /\ thread'[k].at \notin Unqueued

\* The threads that a step does not move keep what is said of them.
LEMMA OthersOK ==
  ASSUME WireTypes, ClientTypes, Calling, links' \in Nat, links <= links', CallersStay,
         NEW t \in Thread, NEW u \in Thread, thread'[u] = thread[u], u # t,
         \A l \in Link : /\ link[l].listening => link'[l].listening
                         /\ link[l].dropped => link'[l].dropped
                         /\ link'[l].listening => link[l].listening \/ (thread[t].at = "initialize" /\ thread[t].link = l)
  PROVE  ThreadOK(u)'
<1>1. ThreadOK(u) /\ LinksMade
  BY DEF Calling
<1>2. links \in Nat /\ 1 .. links \subseteq Link
  BY Made
<1>3. 1 .. links \subseteq 1 .. links'
  BY <1>2
<1>4. thread[u].at \notin {"idle", "returned"} => thread[u].link \in Link
  BY <1>1 DEF ThreadOK
<1>5. thread[u].at = "initialize" => u \in Call /\ thread[u].link \in 1 .. links' /\ ~link'[thread[u].link].listening
  <2> SUFFICES ASSUME thread[u].at = "initialize"
               PROVE  u \in Call /\ thread[u].link \in 1 .. links' /\ ~link'[thread[u].link].listening
    OBVIOUS
  <2>1. u \in Call /\ ~link[thread[u].link].listening /\ thread[u].link \in 1 .. links'
    BY <1>1, <1>3 DEF ThreadOK
  <2>2. ~ (thread[t].at = "initialize" /\ thread[t].link = thread[u].link)
    <3> SUFFICES ASSUME thread[t].at = "initialize", thread[t].link = thread[u].link PROVE FALSE
      OBVIOUS
    <3>1. t \in Call
      BY DEF Calling, ThreadOK
    <3> QED BY <3>1, <2>1, <1>1 DEF LinksMade
  <2> QED BY <2>1, <2>2, <1>4
<1>6. thread[u].at \in Clearing => link'[thread[u].link].dropped
  BY <1>1, <1>4 DEF ThreadOK, Clearing
<1>7. thread[u].at \notin {"idle", "returned", "initialize"} /\ (u \in Call \/ thread[u].at # "drop")
         => link'[thread[u].link].listening
  BY <1>1, <1>4 DEF ThreadOK
<1>8. thread[u].at \in {"cancel", "yield"} =>
           /\ thread[u].call \in Call
           /\ thread'[thread[u].call].link = thread[u].link /\ thread'[thread[u].call].at \notin Unqueued
  BY <1>1 DEF ThreadOK, CallersStay
<1> QED BY <1>1, <1>4, <1>5, <1>6, <1>7, <1>8 DEF ThreadOK

\* A step after which the queues and the calls are as they were, but for the place
\* of a thread that holds no mutex.
LEMMA QuietStep ==
  ASSUME WireTypes, ClientTypes, Calling, links' \in Nat, links <= links',
         server_link_' \in {server_link_, None} \/ link'[server_link_'].listening,
         NEW t \in Thread, thread[t].at \notin {"cancel", "yield", "sweep"}, ThreadOK(t)',
         \A u \in Thread : u # t => thread'[u] = thread[u],
         t \in Call => IF thread[t].at \in Unqueued THEN thread'[t].at \in Unqueued
                       ELSE /\ thread'[t].link = thread[t].link /\ thread'[t].at \notin Unqueued
                            /\ thread'[t].at = "returned" <=> thread[t].at = "returned",
         thread'[t].at = "initialize" => thread'[t].link \notin 1 .. links,
         thread'[t].at \in Busy /\ thread'[t].link \in Link /\ link[thread'[t].link].dropped
            /\ ~link[thread'[t].link].raced => thread[t].at \in Busy /\ thread[t].link = thread'[t].link,
         \A l \in Link : /\ link'[l].queue = link[l].queue /\ link'[l].current = link[l].current
                         /\ link'[l].mutex = link[l].mutex /\ link'[l].dropped = link[l].dropped
                         /\ link'[l].raced = link[l].raced
                         /\ link[l].listening => link'[l].listening
                         /\ link'[l].listening => link[l].listening \/ (thread[t].at = "initialize" /\ thread[t].link = l)
                         /\ link'[l].header_read => link[l].header_read \/ link[l].listening,
         \A k \in Call : /\ calls'[k].finished = calls[k].finished /\ calls'[k].call_finished = calls[k].call_finished
                         /\ calls'[k].resp = calls[k].resp /\ calls'[k].result = calls[k].result
                         /\ calls'[k].late = calls[k].late
  PROVE  Calling'
<1>1. CallersStay
  BY Names DEF CallersStay
<1>2. links \in Nat /\ 1 .. links \subseteq Link /\ (server_link_ # None => server_link_ \in 1 .. links)
  BY Made
<1>3. \A u \in Thread : ThreadOK(u)'
  <2> SUFFICES ASSUME NEW u \in Thread, u # t PROVE ThreadOK(u)'
    OBVIOUS
  <2> QED BY <1>1, OthersOK
<1>4. \A k \in Call : CallOK(k)'
  <2> SUFFICES ASSUME NEW k \in Call PROVE CallOK(k)'
    OBVIOUS
  <2>1. CallOK(k) /\ k \in Thread
    BY Names DEF Calling
  <2>2. calls'[k].call_finished => thread'[k].at = "returned"
    BY <2>1 DEF CallOK, Unqueued
  <2>3. calls'[k].finished => thread'[k].at \notin Unqueued
    BY <2>1 DEF CallOK
  <2>4. calls'[k].late => thread'[k].at = "returned" /\ thread'[k].link \in Link /\ link'[thread'[k].link].raced
    <3> SUFFICES ASSUME calls[k].late PROVE thread'[k].at = "returned" /\ thread'[k].link \in Link /\ link'[thread'[k].link].raced
      OBVIOUS
    <3>1. thread[k].at = "returned" /\ thread[k].link \in Link /\ link[thread[k].link].raced
      BY <2>1 DEF CallOK
    <3> QED BY <2>1, <3>1 DEF Unqueued
  <2> QED BY <2>1, <2>2, <2>3, <2>4 DEF CallOK
<1>5. \A k \in Call, l \in Link : Charged(k, l)' => ChargedOK(k, l)'
  <2> SUFFICES ASSUME NEW k \in Call, NEW l \in Link, Charged(k, l)' PROVE ChargedOK(k, l)'
    OBVIOUS
  <2>1. Charged(k, l)
    BY DEF Charged
  <2>2. ChargedOK(k, l) /\ k \in Thread
    BY <2>1, Names DEF Calling
  <2>3. thread'[k].link = l /\ thread'[k].at \notin Unqueued /\ (thread'[k].at = "returned" => thread[k].at = "returned")
    BY <2>2 DEF ChargedOK
  <2> QED BY <2>2, <2>3 DEF ChargedOK
<1>6. ASSUME NEW l \in Link PROVE QueueOK(l)' /\ DropOK(l)'
  <2>1. QueueOK(l) /\ DropOK(l)
    BY DEF Calling
  <2>2. link[l].mutex # None => link[l].mutex \in Thread /\ link[l].mutex # t
    BY <2>1 DEF QueueOK, ClientTypes, LinkType
  <2>3. QueueOK(l)'
    BY <2>1, <2>2 DEF QueueOK
  <2>4. DropOK(l)'
    BY <2>1 DEF DropOK, Busy
  <2> QED BY <2>3, <2>4
<1>7. LinksMade'
  <2>1. LinksMade
    BY DEF Calling
  <2>2. \A l \in Link : link'[l].listening => l <= links'
    <3>1. thread[t].at = "initialize" => thread[t].link \in 1 .. links
      BY DEF Calling, ThreadOK
    <3> SUFFICES ASSUME NEW l \in Link, link'[l].listening PROVE l <= links'
      OBVIOUS
    <3>2. l <= links
      BY <2>1, <3>1, <1>2 DEF LinksMade
    <3> QED BY <3>2, <1>2, Names
  <2>3. server_link_' # None => link'[server_link_'].listening
    BY <2>1, <1>2 DEF LinksMade
  <2>4. ASSUME NEW k \in Call, NEW j \in Call, thread'[k].at = "initialize", thread'[j].at = "initialize",
               thread'[k].link = thread'[j].link
        PROVE  k = j
    <3>1. \A i \in Call : i # t /\ thread'[i].at = "initialize" => thread[i].at = "initialize" /\ thread'[i].link = thread[i].link
                                                               /\ thread[i].link \in 1 .. links
      BY Names DEF Calling, ThreadOK
    <3> QED BY <2>1, <2>4, <3>1 DEF LinksMade
  <2> QED BY <2>2, <2>3, <2>4 DEF LinksMade
<1> QED BY <1>3, <1>4, <1>5, <1>6, <1>7 DEF Calling

\* The client is as it was after a step of the server.
LEMMA ServerKeepsCalling ==
  ASSUME Calling, UNCHANGED <<thread, calls, link, server_link_, links>>
  PROVE  Calling'
<1>1. ASSUME NEW t \in Thread PROVE ThreadOK(t)'
  BY DEF Calling, ThreadOK
<1>2. ASSUME NEW k \in Call PROVE CallOK(k)'
  BY DEF Calling, CallOK
<1>3. ASSUME NEW k \in Call, NEW l \in Link, Charged(k, l)' PROVE ChargedOK(k, l)'
  BY <1>3 DEF Calling, Charged, ChargedOK
<1>4. ASSUME NEW l \in Link PROVE QueueOK(l)' /\ DropOK(l)'
  BY DEF Calling, QueueOK, DropOK
<1>5. LinksMade'
  BY DEF Calling, LinksMade
<1> QED BY <1>1, <1>2, <1>3, <1>4, <1>5 DEF Calling

\* The publications are as they were after a step of the client.
LEMMA ClientKeepsPublished ==
  ASSUME ServerTypes, Published, QueuedOnce, UNCHANGED <<server, regime, server_closed>>
  PROVE  ServerTypes' /\ Published' /\ QueuedOnce'
<1>1. ServerTypes' /\ QueuedOnce'
  BY DEF ServerTypes, QueuedOnce, server, history
<1>2. UserOK'
  BY DEF Published, UserOK, server, history
<1>3. PollOK'
  BY DEF Published, PollOK, server, history
<1>4. ASSUME NEW p \in Pub PROVE PubOK(p)'
  BY DEF Published, PubOK, Past, server, history
<1>5. ASSUME NEW l \in Link PROVE ParentOK(l)'
  BY DEF Published, ParentOK, Dropped, server, history
<1> QED BY <1>1, <1>2, <1>3, <1>4, <1>5 DEF Published

\* What is left to show of a step of the client.
LEMMA ClientStep ==
  ASSUME IInv, UNCHANGED <<server, regime, cut, server_closed>>, ClientTypes', Calling', \A l \in Link : Carried(l)',
         up' \in [Link -> Seq(UpType)], down' \in [Link -> Seq(DownType)], client_closed' \subseteq Link
  PROVE  IInv'
<1>1. WireTypes'
  BY DEF IInv, Types, WireTypes
<1>2. ServerTypes' /\ Published' /\ QueuedOnce'
  BY ClientKeepsPublished DEF IInv, Types
<1> QED BY <1>1, <1>2 DEF IInv, Types

\* The message of no link is moved by a step of the client that neither writes nor
\* reads, and puts no thread where it deals with a message.
LEMMA NoneMoved ==
  ASSUME \A l \in Link : Carried(l), UNCHANGED <<server, up, down>>,
         \A l \in Link : /\ link'[l].current = link[l].current
                         /\ link'[l].header_read => link[l].header_read
                         /\ link[l].listening => link'[l].listening
                         /\ \/ link'[l].reading = link[l].reading
                            \/ \A t \in Thread : thread'[t].link = l => thread'[t].at \notin {"ok", "failed"},
         \A t \in Thread : thread'[t].at \in Holding \cup {"take", "write"} => thread'[t] = thread[t]
  PROVE  \A l \in Link : Carried(l)'
<1> SUFFICES ASSUME NEW l \in Link PROVE Carried(l)'
  OBVIOUS
<1>1. Carried(l) /\ up'[l] = up[l] /\ down'[l] = down[l] /\ peer'[l] = peer[l]
  BY DEF server
<1>2. link'[l].current = link[l].current /\ (link'[l].header_read => link[l].header_read)
      /\ (~link'[l].listening => ~link[l].listening)
  OBVIOUS
<1>3. \A t \in Thread : thread'[t].link = l /\ thread'[t].at \in {"ok", "failed"} => link'[l].reading = link[l].reading
  OBVIOUS
<1>4. \A t \in Thread : thread'[t].link = l /\ thread'[t].at \in Holding \cup {"take", "write"} => thread'[t] = thread[t]
  OBVIOUS
<1>5. server_poll' = server_poll /\ callbacks' = callbacks /\ serving' = serving
  BY DEF server
<1>6. \A i \in DOMAIN callbacks' : callbacks'[i].link = l => \E j \in DOMAIN callbacks : callbacks[j] = callbacks'[i]
  BY <1>5
<1> QED BY <1>1, <1>2, <1>3, <1>4, <1>5, <1>6, CarriedKept

\* A thread moves, and its link keeps its queue, its current call and its mutex.
LEMMA QuietCalling ==
  ASSUME WireTypes, ClientTypes, Calling, UNCHANGED regime,
         NEW t \in Thread, thread[t].at \notin {"cancel", "yield", "sweep"},
         NEW r \in ThreadType, thread' = [thread EXCEPT ![t] = r], ThreadOK(t)',
         r.at = "initialize" => r.link \notin 1 .. links,
         t \in Call => IF thread[t].at \in Unqueued THEN r.at \in Unqueued
                       ELSE /\ r.link = thread[t].link /\ r.at \notin Unqueued
                            /\ r.at = "returned" <=> thread[t].at = "returned",
         r.at \in Busy /\ r.link \in Link /\ link[r.link].dropped /\ ~link[r.link].raced
            => thread[t].at \in Busy /\ thread[t].link = r.link,
         NEW l \in Link, NEW s \in LinkType, link' = [link EXCEPT ![l] = s],
         s.queue = link[l].queue, s.current = link[l].current, s.mutex = link[l].mutex, s.dropped = link[l].dropped,
         s.raced = link[l].raced, link[l].listening => s.listening,
         s.listening => link[l].listening \/ (thread[t].at = "initialize" /\ thread[t].link = l),
         s.header_read => link[l].header_read \/ link[l].listening,
         calls' \in [Call -> CallType],
         \A k \in Call : /\ calls'[k].finished = calls[k].finished /\ calls'[k].call_finished = calls[k].call_finished
                         /\ calls'[k].resp = calls[k].resp /\ calls'[k].result = calls[k].result
                         /\ calls'[k].late = calls[k].late,
         links' \in 0 .. regime.links, links <= links',
         server_link_' \in {server_link_, None} \/ (server_link_' \in 1 .. links' /\ link'[server_link_'].listening),
         service_server_links_' \subseteq 1 .. links', shutting_down_' \in BOOLEAN
  PROVE  /\ ClientTypes' /\ Calling'
         /\ thread'[t] = r /\ (\A u \in Thread : u # t => thread'[u] = thread[u])
         /\ link'[l] = s /\ (\A m \in Link : m # l => link'[m] = link[m])
<1>1. thread \in [Thread -> ThreadType] /\ link \in [Link -> LinkType]
  BY DEF ClientTypes
<1>2. thread' \in [Thread -> ThreadType] /\ thread'[t] = r /\ (\A u \in Thread : u # t => thread'[u] = thread[u])
  BY <1>1
<1>3. link' \in [Link -> LinkType] /\ link'[l] = s /\ (\A m \in Link : m # l => link'[m] = link[m])
  BY <1>1
<1>4. server_link_' \in 0 .. links' /\ links' \in Nat
  <2>1. server_link_ \in 0 .. links /\ links \in Nat /\ regime.links \in Nat
    BY Made, ServiceAssumption DEF ClientTypes, WireTypes
  <2> QED BY <2>1 DEF None
<1>5. ClientTypes'
  BY <1>2, <1>3, <1>4 DEF ClientTypes
<1>6. Calling'
  <2>1. t \in Call => IF thread[t].at \in Unqueued THEN thread'[t].at \in Unqueued
                      ELSE /\ thread'[t].link = thread[t].link /\ thread'[t].at \notin Unqueued
                           /\ thread'[t].at = "returned" <=> thread[t].at = "returned"
    BY <1>2
  <2>2. thread'[t].at = "initialize" => thread'[t].link \notin 1 .. links
    BY <1>2
  <2>3. thread'[t].at \in Busy /\ thread'[t].link \in Link /\ link[thread'[t].link].dropped
            /\ ~link[thread'[t].link].raced => thread[t].at \in Busy /\ thread[t].link = thread'[t].link
    BY <1>2
  <2>4. \A m \in Link : /\ link'[m].queue = link[m].queue /\ link'[m].current = link[m].current
                        /\ link'[m].mutex = link[m].mutex /\ link'[m].dropped = link[m].dropped
                        /\ link'[m].raced = link[m].raced
                        /\ link[m].listening => link'[m].listening
                        /\ link'[m].listening => link[m].listening \/ (thread[t].at = "initialize" /\ thread[t].link = m)
                        /\ link'[m].header_read => link[m].header_read \/ link[m].listening
    BY <1>3
  <2> QED BY <1>2, <1>4, <2>1, <2>2, <2>3, <2>4, QuietStep
<1> QED BY <1>2, <1>3, <1>5, <1>6

\* ... and does not go where it deals with a message.
LEMMA QuietMove ==
  ASSUME IInv, UNCHANGED <<server, regime, cut, server_closed, up, down>>, client_closed' \subseteq Link,
         NEW t \in Thread, thread[t].at \notin {"cancel", "yield", "sweep"},
         NEW r \in ThreadType, thread' = [thread EXCEPT ![t] = r], ThreadOK(t)',
         r.at \notin Holding \cup {"take", "write"},
         r.at = "initialize" => r.link \notin 1 .. links,
         t \in Call => IF thread[t].at \in Unqueued THEN r.at \in Unqueued
                       ELSE /\ r.link = thread[t].link /\ r.at \notin Unqueued
                            /\ r.at = "returned" <=> thread[t].at = "returned",
         NEW l \in Link, NEW s \in LinkType, link' = [link EXCEPT ![l] = s],
         s.queue = link[l].queue, s.current = link[l].current, s.mutex = link[l].mutex, s.dropped = link[l].dropped,
         s.raced = link[l].raced, s.listening = link[l].listening, s.header_read = link[l].header_read,
         s.reading = link[l].reading \/ Holds(t, l),
         calls' \in [Call -> CallType],
         \A k \in Call : /\ calls'[k].finished = calls[k].finished /\ calls'[k].call_finished = calls[k].call_finished
                         /\ calls'[k].resp = calls[k].resp /\ calls'[k].result = calls[k].result
                         /\ calls'[k].late = calls[k].late,
         links' \in 0 .. regime.links, links <= links', server_link_' \in {server_link_, None},
         service_server_links_' \subseteq 1 .. links', shutting_down_' \in BOOLEAN
  PROVE  IInv'
<1> USE DEF IInv, Types
<1>1. /\ ClientTypes' /\ Calling'
      /\ thread'[t] = r /\ (\A u \in Thread : u # t => thread'[u] = thread[u])
      /\ link'[l] = s /\ (\A m \in Link : m # l => link'[m] = link[m])
  <2>1. r.at \notin Busy
    BY DEF Busy
  <2>2. /\ s.header_read => link[l].header_read \/ link[l].listening
        /\ link[l].listening => s.listening
        /\ s.listening => link[l].listening \/ (thread[t].at = "initialize" /\ thread[t].link = l)
        /\ server_link_' \in {server_link_, None} \/ (server_link_' \in 1 .. links' /\ link'[server_link_'].listening)
    OBVIOUS
  <2>3. WireTypes /\ ClientTypes /\ Calling
    OBVIOUS
  <2> HIDE DEF IInv, Types
  <2> QED BY <2>1, <2>2, <2>3, QuietCalling
<1>2. \A m \in Link : Carried(m)'
  <2>1. ASSUME NEW m \in Link
        PROVE  /\ link'[m].current = link[m].current
               /\ link'[m].header_read => link[m].header_read
               /\ link[m].listening => link'[m].listening
               /\ \/ link'[m].reading = link[m].reading
                  \/ \A u \in Thread : thread'[u].link = m => thread'[u].at \notin {"ok", "failed"}
    <3>1. CASE m # l \/ s.reading = link[l].reading
      BY <3>1, <1>1
    <3>2. CASE m = l /\ Holds(t, l)
      <4>1. \A u \in Thread : Holds(u, l) => u = t
        BY <3>2 DEF Carried, InOnePlace
      <4>2. \A u \in Thread : thread'[u].link = l => thread'[u].at \notin {"ok", "failed"}
        BY <4>1, <1>1 DEF Holds, Holding
      <4> QED BY <4>2, <3>2, <1>1
    <3> QED BY <3>1, <3>2
  <2>2. \A u \in Thread : thread'[u].at \in Holding \cup {"take", "write"} => thread'[u] = thread[u]
    BY <1>1
  <2>3. \A m \in Link : Carried(m)
    OBVIOUS
  <2> QED BY <2>1, <2>2, <2>3, NoneMoved
<1>3. up' \in [Link -> Seq(UpType)] /\ down' \in [Link -> Seq(DownType)]
  BY DEF WireTypes
<1> QED BY <1>1, <1>2, <1>3, ClientStep

-----------------------------------------------------------------------------
(* The steps of the client.                                                     *)

\* The link of a thread that is somewhere.
LEMMA Where ==
  ASSUME IInv, NEW t \in Thread, thread[t].at \notin {"idle", "returned"}
  PROVE  /\ On(t) \in Link /\ On(t) = thread[t].link
         /\ (thread[t].at # "initialize" /\ (t \in Call \/ thread[t].at # "drop")) => link[On(t)].listening
         /\ link[On(t)] \in LinkType /\ thread[t] \in ThreadType
<1>1. ThreadOK(t)
  BY DEF IInv, Calling
<1> QED BY <1>1 DEF ThreadOK, On, IInv, Types, ClientTypes

\* A link that is left as it is.
LEMMA SameLink ==
  ASSUME ClientTypes, NEW l \in Link, UNCHANGED link
  PROVE  link' = [link EXCEPT ![l] = link[l]] /\ link[l] \in LinkType
BY DEF ClientTypes

\* A thread that only changes its place.
LEMMA AtMoves ==
  ASSUME ClientTypes, NEW t \in Thread, NEW where \in Steps, At(t, where)
  PROVE  \E r \in ThreadType :
           thread' = [thread EXCEPT ![t] = r] /\ r.at = where /\ r.link = thread[t].link /\ r.call = thread[t].call
<1> DEFINE r == [thread[t] EXCEPT !.at = where]
<1>1. r \in ThreadType /\ r.at = where /\ r.link = thread[t].link /\ r.call = thread[t].call
  BY DEF ClientTypes, ThreadType
<1>2. thread' = [thread EXCEPT ![t] = r]
  BY DEF At
<1> HIDE DEF r
<1> QED BY <1>1, <1>2

\* There is a link.
LEMMA AnyLink ==
  ASSUME WireTypes
  PROVE  1 \in Link
<1>1. regime \in Regime /\ regime.links \in Nat \ {0}
  BY ServiceAssumption DEF WireTypes
<1> QED BY <1>1 DEF Link

\* The steps of a thread on its link after which it neither holds a message nor
\* has to write, and which leave the calls alone.
LEMMA QuietOn ==
  ASSUME IInv, UNCHANGED <<server, regime, cut, server_closed, up, down, calls, links, server_link_, shutting_down_>>,
         client_closed' \subseteq Link, service_server_links_' \subseteq service_server_links_,
         NEW t \in Thread, thread[t].at \notin {"returned", "cancel", "yield", "sweep"} \cup Unqueued,
         NEW r \in ThreadType, thread' = [thread EXCEPT ![t] = r],
         \/ r = Idle /\ t \notin Call
         \/ r.link = On(t) /\ r.at \in {"read", "wait", "drop"} /\ (r.at # "drop" => t \in Call),
         NEW s \in LinkType, link' = [link EXCEPT ![On(t)] = s],
         s.queue = link[On(t)].queue, s.current = link[On(t)].current, s.mutex = link[On(t)].mutex,
         s.dropped = link[On(t)].dropped, s.raced = link[On(t)].raced, s.listening = link[On(t)].listening,
         s.header_read = link[On(t)].header_read, s.reading = link[On(t)].reading
  PROVE  IInv'
<1>1. On(t) \in Link /\ On(t) = thread[t].link /\ (t \in Call => link[On(t)].listening)
  BY Where DEF Unqueued
<1>2. links \in Nat /\ links <= links' /\ links' \in 0 .. regime.links /\ service_server_links_' \subseteq 1 .. links'
  BY Made DEF IInv, Types, ClientTypes
<1>3. thread \in [Thread -> ThreadType] /\ link \in [Link -> LinkType] /\ calls' \in [Call -> CallType]
      /\ shutting_down_' \in BOOLEAN
  BY DEF IInv, Types, ClientTypes
<1>4. thread'[t] = r /\ link'[On(t)].listening = link[On(t)].listening
  BY <1>1, <1>3
<1>5. ThreadOK(t)'
  BY <1>1, <1>2, <1>4 DEF ThreadOK, Idle, Clearing
<1>6. t \in Call => IF thread[t].at \in Unqueued THEN r.at \in Unqueued
                    ELSE /\ r.link = thread[t].link /\ r.at \notin Unqueued
                         /\ r.at = "returned" <=> thread[t].at = "returned"
  BY <1>1 DEF Unqueued
<1>7. r.at \notin Holding \cup {"take", "write"} /\ r.at # "initialize"
  BY DEF Holding, Idle
<1> QED BY <1>1, <1>2, <1>3, <1>5, <1>6, <1>7, QuietMove

\* No link has a call that has not been queued.
LEMMA Uncharged ==
  ASSUME IInv, NEW k \in Call, thread[k].at \in Unqueued, NEW l \in Link
  PROVE  ~Charged(k, l)
BY DEF IInv, Calling, ChargedOK

\* A call returns that has not been queued, or has been notified.
LEMMA ReturnsMove ==
  ASSUME IInv, NEW k \in Call, thread[k].at \in {"idle", "push", "wait"},
         NEW result \in {None, k}, Returns(k, result),
         \A l \in Link : Charged(k, l) => calls[k].finished,
         UNCHANGED <<server, wire, link, server_link_, links, service_server_links_, shutting_down_>>
  PROVE  IInv'
<1> USE DEF IInv, Types
<1>1. k \in Thread /\ thread \in [Thread -> ThreadType] /\ calls \in [Call -> CallType] /\ links \in Nat
  BY Names, Made DEF ClientTypes
<1> DEFINE r == [thread[k] EXCEPT !.at = "returned"]
           c == [calls[k] EXCEPT !.call_finished = TRUE, !.result = result]
<1>2. r \in ThreadType /\ r.at = "returned" /\ r.link = thread[k].link
  BY <1>1 DEF ThreadType, Steps
<1>3. /\ c \in CallType /\ c.call_finished = TRUE /\ c.result = result /\ c.finished = calls[k].finished
      /\ c.resp = calls[k].resp /\ c.late = calls[k].late
  BY <1>1 DEF CallType
<1>4. thread' = [thread EXCEPT ![k] = r] /\ calls' = [calls EXCEPT ![k] = c]
  BY DEF Returns
<1> HIDE DEF r, c
<1>5. thread' \in [Thread -> ThreadType] /\ thread'[k] = r /\ (\A u \in Thread : u # k => thread'[u] = thread[u])
  BY <1>1, <1>2, <1>4
<1>6. calls' \in [Call -> CallType] /\ calls'[k] = c /\ (\A j \in Call : j # k => calls'[j] = calls[j])
  BY <1>1, <1>3, <1>4
<1>7. ClientTypes'
  BY <1>5, <1>6 DEF ClientTypes, wire
<1>8. \A u \in Thread : ThreadOK(u)'
  <2>1. CallersStay
    BY <1>2, <1>5, Names DEF CallersStay, Unqueued
  <2>2. ThreadOK(k)'
    BY <1>2, <1>5 DEF ThreadOK, Clearing
  <2>3. \A u \in Thread : u # k => ThreadOK(u)'
    <3> SUFFICES ASSUME NEW u \in Thread, u # k PROVE ThreadOK(u)'
      OBVIOUS
    <3> QED BY <1>1, <1>5, <2>1, OthersOK
  <2> QED BY <2>2, <2>3
<1>9. \A j \in Call : CallOK(j)'
  <2>1. CallOK(k)'
    BY <1>2, <1>3, <1>5, <1>6 DEF Calling, CallOK, Unqueued
  <2>2. \A j \in Call : j # k => CallOK(j)'
    BY <1>5, <1>6, Names DEF Calling, CallOK
  <2> QED BY <2>1, <2>2
<1>10. \A j \in Call, l \in Link : Charged(j, l)' => ChargedOK(j, l)'
  <2> SUFFICES ASSUME NEW j \in Call, NEW l \in Link, Charged(j, l)' PROVE ChargedOK(j, l)'
    OBVIOUS
  <2>1. Charged(j, l) /\ ChargedOK(j, l) /\ j \in Thread
    BY Names DEF Calling, Charged
  <2>2. CASE j # k
    BY <2>1, <2>2, <1>5, <1>6 DEF ChargedOK
  <2>3. CASE j = k
    BY <2>1, <2>3, <1>2, <1>3, <1>5, <1>6 DEF ChargedOK, Unqueued
  <2> QED BY <2>2, <2>3
<1>11. \A l \in Link : QueueOK(l)' /\ DropOK(l)'
  <2> SUFFICES ASSUME NEW l \in Link PROVE QueueOK(l)' /\ DropOK(l)'
    OBVIOUS
  <2>1. QueueOK(l) /\ DropOK(l)
    BY DEF Calling
  <2>2. link[l].mutex # None => link[l].mutex \in Thread /\ link[l].mutex # k
    BY <2>1 DEF QueueOK, ClientTypes, LinkType
  <2>3. QueueOK(l)'
    BY <2>1, <2>2, <1>5 DEF QueueOK
  <2>4. DropOK(l)'
    BY <2>1, <1>2, <1>5 DEF DropOK, Holding
  <2> QED BY <2>3, <2>4
<1>12. LinksMade'
  BY <1>2, <1>5, Names DEF Calling, LinksMade
<1>13. Calling'
  BY <1>8, <1>9, <1>10, <1>11, <1>12 DEF Calling
<1>14. \A l \in Link : Carried(l)'
  <2>1. UNCHANGED <<server, up, down, link>> /\ \A l \in Link : Carried(l)
    BY DEF wire
  <2>2. \A u \in Thread : thread'[u].at \in Holding \cup {"take", "write"} => thread'[u] = thread[u]
    BY <1>2, <1>5 DEF Holding
  <2> QED BY <2>1, <2>2, NoneMoved
<1> QED BY <1>7, <1>13, <1>14, ClientStep DEF wire, WireTypes

\* ServiceClient::call() finds its link, makes one, or returns: the invariant is kept.
LEMMA FindStep ==
  ASSUME IInv, NEW k \in Call, Find(k, registered), UNCHANGED server
  PROVE  IInv'
<1> USE DEF IInv, Types
<1>1. k \in Thread /\ k \in Int /\ 1 \in Link /\ thread[k].at = "idle" /\ thread[k] \in ThreadType
      /\ thread \in [Thread -> ThreadType] /\ link \in [Link -> LinkType] /\ calls \in [Call -> CallType]
      /\ shutting_down_ \in BOOLEAN
  BY Names, AnyLink DEF Find, ClientTypes
<1>2. UNCHANGED <<server, regime, cut, server_closed, up, down, client_closed, link, server_link_, shutting_down_>>
      /\ client_closed' \subseteq Link
  BY DEF Find, wire, WireTypes
<1>3. links \in Nat /\ 1 .. links \subseteq Link /\ (server_link_ # None => server_link_ \in 1 .. links)
      /\ (links < regime.links => links + 1 \in Link) /\ regime.links \in Nat /\ links <= regime.links
      /\ service_server_links_ \subseteq 1 .. links
  BY Made, ServiceAssumption DEF WireTypes, ClientTypes
<1>4. link' = [link EXCEPT ![1] = link[1]] /\ link[1] \in LinkType
  BY <1>1, <1>2, SameLink
<1>5. LinksMade
  BY DEF Calling
<1>6. CASE server_link_ # None /\ thread' = [thread EXCEPT ![k].at = "push", ![k].link = server_link_]
           /\ UNCHANGED <<calls, links, service_server_links_>>
  <2> DEFINE r == [thread[k] EXCEPT !.at = "push", !.link = server_link_]
  <2>1. r \in ThreadType /\ r.at = "push" /\ r.link = server_link_
    BY <1>1, <1>3, <1>6 DEF ThreadType, Steps, Unqueued
  <2>2. thread' = [thread EXCEPT ![k] = r]
    BY <1>6
  <2> HIDE DEF r
  <2>3. thread'[k] = r /\ link'[server_link_].listening
    BY <2>2, <1>1, <1>2, <1>5, <1>6 DEF LinksMade
  <2>4. ThreadOK(k)'
    BY <2>1, <2>3, <1>3, <1>6 DEF ThreadOK, Clearing
  <2>5. r.at \notin Holding \cup {"take", "write"} /\ (r.at = "initialize" => r.link \notin 1 .. links) /\ r.at \in Unqueued
    BY <2>1 DEF Holding, Unqueued
  <2>6. links' \in 0 .. regime.links /\ links <= links' /\ service_server_links_' \subseteq 1 .. links' /\ calls' = calls
    BY <1>3, <1>6
  <2>7. calls' \in [Call -> CallType] /\ server_link_' \in {server_link_, None} /\ shutting_down_' \in BOOLEAN
        /\ thread[k].at \in Unqueued /\ thread[k].at \notin {"cancel", "yield", "sweep"}
    BY <1>1, <1>2, <2>6 DEF Unqueued
  <2> HIDE DEF IInv, Types
  <2> QED BY <1>1, <1>2, <1>4, <2>1, <2>2, <2>4, <2>5, <2>6, <2>7, QuietMove
<1>7. CASE links < regime.links /\ links' = links + 1
           /\ thread' = [thread EXCEPT ![k].at = "initialize", ![k].link = links'] /\ UNCHANGED calls
           /\ service_server_links_' = service_server_links_ \cup {links'}
  <2> DEFINE r == [thread[k] EXCEPT !.at = "initialize", !.link = links']
  <2>1. r \in ThreadType /\ r.at = "initialize" /\ r.link = links + 1
    BY <1>1, <1>3, <1>7 DEF ThreadType, Steps, Unqueued
  <2>2. thread' = [thread EXCEPT ![k] = r]
    BY <1>7
  <2> HIDE DEF r
  <2>3. thread'[k] = r /\ ~link'[links + 1].listening
    BY <2>2, <1>1, <1>2, <1>3, <1>5, <1>7 DEF LinksMade
  <2>4. links + 1 \in 1 .. links' /\ links + 1 \notin 1 .. links
    BY <1>3, <1>7
  <2>5. ThreadOK(k)'
    BY <1>3, <1>7, <2>1, <2>3, <2>4 DEF ThreadOK, Clearing
  <2>6. r.at \notin Holding \cup {"take", "write"} /\ r.link \notin 1 .. links /\ r.at \in Unqueued
    BY <2>1, <2>4 DEF Holding, Unqueued
  <2>7. links' \in 0 .. regime.links /\ links <= links' /\ service_server_links_' \subseteq 1 .. links'
    BY <1>3, <1>7
  <2>8. thread[k].at \in Unqueued
    BY <1>1 DEF Unqueued
  <2> HIDE DEF IInv, Types
  <2> QED BY <1>1, <1>2, <1>4, <1>7, <2>1, <2>2, <2>5, <2>6, <2>7, <2>8, QuietMove
<1>8. CASE Returns(k, None) /\ UNCHANGED <<links, service_server_links_>>
  <2>1. \A l \in Link : ~Charged(k, l)
    BY <1>1, Uncharged DEF Unqueued
  <2>2. UNCHANGED <<server, wire, link, server_link_, links, service_server_links_, shutting_down_>>
    BY <1>8 DEF Find
  <2> HIDE DEF IInv, Types
  <2> QED BY <1>1, <1>8, <2>1, <2>2, ReturnsMove
<1> QED BY <1>6, <1>7, <1>8 DEF Find

\* A thread rests, and leaves the link as it is.
LEMMA QuietRest ==
  ASSUME IInv, UNCHANGED <<server, regime, cut, server_closed, up, down, calls, links, server_link_, shutting_down_>>,
         client_closed' \subseteq Link, service_server_links_' \subseteq service_server_links_,
         NEW t \in Thread, thread[t].at \notin {"returned", "cancel", "yield", "sweep"} \cup Unqueued, Rest(t),
         NEW s \in LinkType, link' = [link EXCEPT ![On(t)] = Leave(t, s)],
         s.queue = link[On(t)].queue, s.current = link[On(t)].current, s.mutex = link[On(t)].mutex,
         s.dropped = link[On(t)].dropped, s.raced = link[On(t)].raced, s.listening = link[On(t)].listening,
         s.header_read = link[On(t)].header_read, s.reading = link[On(t)].reading
  PROVE  IInv'
<1>1. On(t) \in Link /\ On(t) = thread[t].link
  BY Where DEF Unqueued
<1>2. PICK r \in ThreadType : /\ thread' = [thread EXCEPT ![t] = r]
                              /\ IF t \in Call THEN r.at \in {"read", "wait"} /\ r.link = thread[t].link /\ r.call = None
                                 ELSE r = Idle
  BY <1>1, Resting DEF IInv, Types
<1>3. \/ r = Idle /\ t \notin Call
      \/ r.link = On(t) /\ r.at \in {"read", "wait", "drop"} /\ (r.at # "drop" => t \in Call)
  BY <1>1, <1>2
<1> DEFINE q == Leave(t, s)
<1>4. /\ q \in LinkType /\ link' = [link EXCEPT ![On(t)] = q]
      /\ q.queue = link[On(t)].queue /\ q.current = link[On(t)].current /\ q.mutex = link[On(t)].mutex
      /\ q.dropped = link[On(t)].dropped /\ q.raced = link[On(t)].raced /\ q.listening = link[On(t)].listening
      /\ q.header_read = link[On(t)].header_read /\ q.reading = link[On(t)].reading
  BY Leaving
<1> HIDE DEF q
<1> QED BY <1>2, <1>3, <1>4, QuietOn

\* A thread that goes on, on a link that it leaves as it is.
LEMMA QuietAt ==
  ASSUME IInv, UNCHANGED <<server, wire, link, calls, links, server_link_, shutting_down_, service_server_links_>>,
         NEW t \in Thread, thread[t].at \notin {"returned", "cancel", "yield", "sweep"} \cup Unqueued, At(t, "drop")
  PROVE  IInv'
<1>1. On(t) \in Link /\ On(t) = thread[t].link
  BY Where DEF Unqueued
<1>2. PICK r \in ThreadType : thread' = [thread EXCEPT ![t] = r] /\ r.at = "drop" /\ r.link = thread[t].link
  BY AtMoves DEF IInv, Types, Steps
<1>3. link' = [link EXCEPT ![On(t)] = link[On(t)]] /\ link[On(t)] \in LinkType
  BY <1>1, SameLink DEF IInv, Types
<1>4. UNCHANGED <<server, regime, cut, server_closed, up, down, calls, links, server_link_, shutting_down_>>
      /\ client_closed' \subseteq Link /\ service_server_links_' \subseteq service_server_links_
  BY DEF wire, IInv, Types, WireTypes
<1> QED BY <1>1, <1>2, <1>3, <1>4, QuietOn

\* A caller that has been notified returns: the invariant is kept.
LEMMA ReturnStep ==
  ASSUME IInv, NEW k \in Call, Return(k), UNCHANGED server
  PROVE  IInv'
<1>1. thread[k].at = "wait" /\ calls[k].finished /\ calls[k].resp \in {None, k}
  BY DEF Return, IInv, Calling, CallOK
<1>2. PICK result \in {None, k} : Returns(k, result)
  BY <1>1 DEF Return
<1>3. UNCHANGED <<server, wire, link, server_link_, links, service_server_links_, shutting_down_>>
  BY DEF Return
<1> QED BY <1>1, <1>2, <1>3, ReturnsMove

\* A caller stops reading, and waits: the invariant is kept.
LEMMA StopReadingStep ==
  ASSUME IInv, NEW k \in Call, StopReading(k), UNCHANGED server
  PROVE  IInv'
<1>1. k \in Thread /\ thread[k].at = "read"
  BY Names DEF StopReading
<1>2. On(k) \in Link /\ On(k) = thread[k].link /\ link[On(k)] \in LinkType
  BY <1>1, Where
<1>3. PICK r \in ThreadType : thread' = [thread EXCEPT ![k] = r] /\ r.at = "wait" /\ r.link = thread[k].link
  BY <1>1, AtMoves DEF IInv, Types, StopReading, Steps
<1> DEFINE s == [link[On(k)] EXCEPT !.reader = None]
<1>4. /\ s \in LinkType /\ link' = [link EXCEPT ![On(k)] = s]
      /\ s.queue = link[On(k)].queue /\ s.current = link[On(k)].current /\ s.mutex = link[On(k)].mutex
      /\ s.dropped = link[On(k)].dropped /\ s.raced = link[On(k)].raced /\ s.listening = link[On(k)].listening
      /\ s.header_read = link[On(k)].header_read /\ s.reading = link[On(k)].reading
  BY <1>2 DEF LinkType, StopReading
<1> HIDE DEF s
<1>5. UNCHANGED <<server, regime, cut, server_closed, up, down, calls, links, server_link_, shutting_down_>>
      /\ client_closed' \subseteq Link /\ service_server_links_' \subseteq service_server_links_
  BY DEF StopReading, wire, IInv, Types, WireTypes
<1>6. thread[k].at \notin {"returned", "cancel", "yield", "sweep"} \cup Unqueued
  BY <1>1 DEF Unqueued
<1> QED BY <1>1, <1>2, <1>3, <1>4, <1>5, <1>6, QuietOn

\* The server has refused, and the connection is to be dropped: the invariant is kept.
LEMMA HeaderErrorStep ==
  ASSUME IInv, NEW t \in Thread, HeaderError(t), UNCHANGED server
  PROVE  IInv'
<1>1. thread[t].at \notin {"returned", "cancel", "yield", "sweep"} \cup Unqueued
  BY DEF HeaderError, Unqueued
<1> QED BY <1>1, QuietAt DEF HeaderError

\* removeServiceServerLink(), and the transport closes: the invariant is kept.
LEMMA RemoveStep ==
  ASSUME IInv, NEW t \in Thread, RemoveServiceServerLink(t), UNCHANGED server
  PROVE  IInv'
<1>1. thread[t].at = "remove" /\ thread[t].at \notin {"returned", "cancel", "yield", "sweep"} \cup Unqueued
  BY DEF RemoveServiceServerLink, Unqueued
<1>2. On(t) \in Link /\ link[On(t)] \in LinkType
  BY <1>1, Where
<1> DEFINE s == [link[On(t)] EXCEPT !.cleared = TRUE]
<1>3. /\ s \in LinkType /\ link' = [link EXCEPT ![On(t)] = Leave(t, s)]
      /\ s.queue = link[On(t)].queue /\ s.current = link[On(t)].current /\ s.mutex = link[On(t)].mutex
      /\ s.dropped = link[On(t)].dropped /\ s.raced = link[On(t)].raced /\ s.listening = link[On(t)].listening
      /\ s.header_read = link[On(t)].header_read /\ s.reading = link[On(t)].reading
  BY <1>2 DEF LinkType, RemoveServiceServerLink, IInv, Types, ClientTypes
<1> HIDE DEF s
<1>4. UNCHANGED <<server, regime, cut, server_closed, up, down, calls, links, server_link_, shutting_down_>>
      /\ client_closed' \subseteq Link /\ service_server_links_' \subseteq service_server_links_
  BY <1>2 DEF RemoveServiceServerLink, IInv, Types, WireTypes
<1>5. Rest(t)
  BY DEF RemoveServiceServerLink
<1> QED BY <1>1, <1>3, <1>4, <1>5, QuietRest

\* The poll thread or the user begins to drop a link.
LEMMA BeginsToDrop ==
  ASSUME IInv, UNCHANGED <<server, wire, calls, link, links, shutting_down_>>,
         server_link_' \in {server_link_, None}, service_server_links_' \subseteq service_server_links_,
         NEW t \in {Poll, User}, thread[t].at = "idle", NEW l \in Link,
         thread' = [thread EXCEPT ![t] = [at |-> "drop", link |-> l, call |-> None]]
  PROVE  IInv'
<1> DEFINE r == [at |-> "drop", link |-> l, call |-> None]
<1>1. r \in ThreadType /\ r.at = "drop" /\ r.link = l /\ thread' = [thread EXCEPT ![t] = r]
  BY DEF ThreadType, Steps
<1> HIDE DEF r
<1>2. t \in Thread /\ t \notin Call /\ thread \in [Thread -> ThreadType] /\ calls' \in [Call -> CallType]
      /\ shutting_down_' \in BOOLEAN
  BY Names DEF IInv, Types, ClientTypes
<1>3. links \in Nat /\ links' = links /\ links' \in 0 .. regime.links /\ links <= links'
      /\ service_server_links_' \subseteq 1 .. links'
  BY Made DEF IInv, Types, ClientTypes
<1>4. link' = [link EXCEPT ![l] = link[l]] /\ link[l] \in LinkType
  BY SameLink DEF IInv, Types
<1>5. ThreadOK(t)'
  BY <1>1, <1>2 DEF ThreadOK, Clearing
<1>6. UNCHANGED <<server, regime, cut, server_closed, up, down>> /\ client_closed' \subseteq Link
  BY DEF wire, IInv, Types, WireTypes
<1>7. r.at \notin Holding \cup {"take", "write"} /\ r.at # "initialize" /\ thread[t].at \notin {"cancel", "yield", "sweep"}
  BY <1>1 DEF Holding
<1> QED BY <1>1, <1>2, <1>3, <1>4, <1>5, <1>6, <1>7, QuietMove

\* The poll thread finds a connection closed or broken: the invariant is kept.
LEMMA DisconnectStep ==
  ASSUME IInv, NEW l \in Link, Disconnect(l), UNCHANGED server
  PROVE  IInv'
BY BeginsToDrop DEF Disconnect

\* ServiceClient::shutdown() lets go of the link, which is to be dropped: the invariant is kept.
LEMMA ShutdownStep ==
  ASSUME IInv, Shutdown, UNCHANGED server
  PROVE  IInv'
<1>1. server_link_ \in Link
  BY Made DEF IInv, Types, Shutdown
<1> QED BY <1>1, BeginsToDrop DEF Shutdown

\* ServiceManager::shutdown() goes on with its next link: the invariant is kept.
LEMMA StopLinkStep ==
  ASSUME IInv, NEW l \in Link, StopLink(l), UNCHANGED server
  PROVE  IInv'
BY BeginsToDrop DEF StopLink

\* ServiceManager::shutdown() begins: the invariant is kept.
LEMMA StopStep ==
  ASSUME IInv, Stop, UNCHANGED server
  PROVE  IInv'
<1>1. UNCHANGED <<wire, thread, calls, link, server_link_, links, service_server_links_>> /\ shutting_down_' = TRUE
  BY DEF Stop
<1>2. Calling'
  BY <1>1, ServerKeepsCalling DEF IInv
<1>3. ClientTypes'
  BY <1>1 DEF IInv, Types, ClientTypes, wire
<1>4. \A l \in Link : Carried(l)'
  BY <1>1, NoneMoved DEF IInv, wire
<1>5. up' \in [Link -> Seq(UpType)] /\ down' \in [Link -> Seq(DownType)] /\ client_closed' \subseteq Link
  BY <1>1 DEF IInv, Types, WireTypes, wire
<1> QED BY <1>1, <1>2, <1>3, <1>4, <1>5, ClientStep DEF wire

\* clearCalls() looks at the current call: the invariant is kept.
LEMMA ClearCurrentStep ==
  ASSUME IInv, NEW t \in Thread, ClearCurrent(t), UNCHANGED server
  PROVE  IInv'
<1> DEFINE l == On(t)
           k == link[l].current
<1>1. thread[t].at = "clear" /\ l \in Link /\ l = thread[t].link /\ link[l].listening /\ link[l] \in LinkType
      /\ thread[t] \in ThreadType
  BY Where DEF ClearCurrent
<1>2. link[l].dropped
  BY <1>1 DEF IInv, Calling, ThreadOK, Clearing
<1>3. k # None => k \in Call /\ thread[k].link = l /\ thread[k].at \notin Unqueued
  <2> SUFFICES ASSUME k # None PROVE k \in Call /\ thread[k].link = l /\ thread[k].at \notin Unqueued
    OBVIOUS
  <2>1. k \in Call /\ Charged(k, l)
    BY <1>1 DEF LinkType, Charged
  <2> QED BY <2>1, <1>1 DEF IInv, Calling, ChargedOK
<1>4. \E r \in ThreadType : /\ thread' = [thread EXCEPT ![t] = r] /\ r.link = l
                            /\ r.at = "sweep" \/ (r.at = "cancel" /\ r.call = k /\ k # None)
  <2>1. CASE k = None
    <3>1. At(t, "sweep")
      BY <2>1 DEF ClearCurrent
    <3> QED BY <3>1, <1>1, AtMoves DEF IInv, Types, Steps, Clearing
  <2>2. CASE k # None
    <3> DEFINE r == [thread[t] EXCEPT !.at = "cancel", !.call = k]
    <3>1. r \in ThreadType /\ r.at = "cancel" /\ r.link = l /\ r.call = k
      BY <1>1, <1>3, <2>2 DEF ThreadType, Steps, Clearing
    <3>2. thread' = [thread EXCEPT ![t] = r]
      BY <2>2 DEF ClearCurrent
    <3> HIDE DEF r
    <3> QED BY <3>1, <3>2, <2>2
  <2> QED BY <2>1, <2>2
<1>5. PICK r \in ThreadType : /\ thread' = [thread EXCEPT ![t] = r] /\ r.link = l
                              /\ r.at = "sweep" \/ (r.at = "cancel" /\ r.call = k /\ k # None)
  BY <1>4
<1>6. /\ UNCHANGED <<server, regime, cut, server_closed, up, down, link, server_link_>> /\ client_closed' \subseteq Link
      /\ calls' = calls /\ calls' \in [Call -> CallType] /\ shutting_down_' \in BOOLEAN
      /\ links' \in 0 .. regime.links /\ links' = links /\ links \in Nat /\ service_server_links_' \subseteq 1 .. links'
      /\ thread \in [Thread -> ThreadType]
  BY Made DEF ClearCurrent, wire, IInv, Types, WireTypes, ClientTypes
<1> HIDE DEF l, k
<1>7. thread'[t] = r /\ (k # None => thread'[k].link = l /\ thread'[k].at \notin Unqueued)
  <2>1. thread'[t] = r
    BY <1>5, <1>6
  <2>2. k # None => k \in Thread
    BY <1>3, Names
  <2> QED BY <1>3, <1>5, <1>6, <2>1, <2>2 DEF Unqueued
<1>8. ThreadOK(t)'
  BY <1>1, <1>2, <1>3, <1>5, <1>6, <1>7 DEF ThreadOK
<1>9. link' = [link EXCEPT ![l] = link[l]]
  BY <1>1, <1>6, SameLink DEF IInv, Types
<1>10. /\ r.at \notin Holding \cup {"take", "write"} /\ r.at # "initialize" /\ r.at \notin Unqueued /\ r.at # "returned"
       /\ thread[t].at \notin {"cancel", "yield", "sweep"} /\ thread[t].at \notin Unqueued /\ thread[t].at # "returned"
  BY <1>1, <1>5 DEF Holding, Unqueued
<1>11. t \in Call => IF thread[t].at \in Unqueued THEN r.at \in Unqueued
                     ELSE /\ r.link = thread[t].link /\ r.at \notin Unqueued
                          /\ r.at = "returned" <=> thread[t].at = "returned"
  BY <1>1, <1>5, <1>10
<1>12. links <= links' /\ server_link_' \in {server_link_, None}
  BY <1>6
<1> QED BY <1>1, <1>5, <1>6, <1>8, <1>9, <1>10, <1>11, <1>12, QuietMove

\* onResponseOkAndLength() changes nothing but "success" and what is read next.
LEMMA ResponseOkStep ==
  ASSUME IInv, NEW t \in Thread, ResponseOk(t), UNCHANGED server
  PROVE  IInv'
<1> DEFINE l == On(t)
           k == link[l].current
           q == IF link[l].dropped THEN link[l] ELSE [link[l] EXCEPT !.reading = "response"]
           s == Leave(t, q)
<1>1. thread[t].at \in {"ok", "failed"} /\ l \in Link /\ l = thread[t].link /\ link[l] \in LinkType
      /\ (t \in Call => link[l].listening)
  BY Where DEF ResponseOk
<1>2. Holds(t, l)
  BY <1>1 DEF Holds, Holding
<1>3. PICK r \in ThreadType :
           /\ thread' = [thread EXCEPT ![t] = r]
           /\ IF t \in Call THEN r.at \in {"read", "wait"} /\ r.link = thread[t].link /\ r.call = None ELSE r = Idle
  BY <1>1, Resting DEF ResponseOk, IInv, Types
<1>4. /\ q \in LinkType /\ q.queue = link[l].queue /\ q.current = link[l].current /\ q.mutex = link[l].mutex
      /\ q.dropped = link[l].dropped /\ q.raced = link[l].raced /\ q.listening = link[l].listening
      /\ q.header_read = link[l].header_read
  BY <1>1 DEF LinkType
<1>5. link' = [link EXCEPT ![l] = s]
  BY <1>1 DEF ResponseOk, IInv, Types, ClientTypes
<1>6. k \in Call /\ calls' = [calls EXCEPT ![k] = [calls[k] EXCEPT !.success = thread[t].at = "ok"]]
  BY <1>1, <1>2 DEF ResponseOk, IInv, Carried, HolderOK, LinkType
<1> HIDE DEF l, q, k
<1>7. /\ s \in LinkType /\ s.queue = link[l].queue /\ s.current = link[l].current /\ s.mutex = link[l].mutex
      /\ s.dropped = link[l].dropped /\ s.raced = link[l].raced /\ s.listening = link[l].listening
      /\ s.header_read = link[l].header_read
  BY <1>4, Leaving
<1> HIDE DEF s
<1>8. /\ calls' \in [Call -> CallType]
      /\ \A j \in Call : /\ calls'[j].finished = calls[j].finished /\ calls'[j].call_finished = calls[j].call_finished
                         /\ calls'[j].resp = calls[j].resp /\ calls'[j].result = calls[j].result
                         /\ calls'[j].late = calls[j].late
  <2>1. calls \in [Call -> CallType]
    BY DEF IInv, Types, ClientTypes
  <2> DEFINE c == [calls[k] EXCEPT !.success = thread[t].at = "ok"]
  <2>2. /\ c \in CallType /\ c.finished = calls[k].finished /\ c.call_finished = calls[k].call_finished
        /\ c.resp = calls[k].resp /\ c.result = calls[k].result /\ c.late = calls[k].late
    BY <2>1, <1>6 DEF CallType
  <2>3. calls' = [calls EXCEPT ![k] = c]
    BY <1>6
  <2> HIDE DEF c
  <2> QED BY <2>1, <2>2, <2>3
<1>9. /\ UNCHANGED <<server, regime, cut, server_closed, up, down>> /\ client_closed' \subseteq Link
      /\ shutting_down_' \in BOOLEAN /\ server_link_' \in {server_link_, None} /\ links <= links'
      /\ links' \in 0 .. regime.links /\ service_server_links_' \subseteq 1 .. links'
      /\ thread \in [Thread -> ThreadType] /\ link \in [Link -> LinkType]
  BY Made DEF ResponseOk, wire, IInv, Types, WireTypes, ClientTypes
<1>10. thread'[t] = r /\ link'[l].listening = link[l].listening
  BY <1>1, <1>3, <1>5, <1>7, <1>9
<1>11. ThreadOK(t)'
  BY <1>1, <1>3, <1>10 DEF ThreadOK, Idle, Clearing
<1>12. /\ r.at \notin Holding \cup {"take", "write"} /\ r.at # "initialize"
       /\ thread[t].at \notin {"cancel", "yield", "sweep"}
  BY <1>1, <1>3 DEF Holding, Idle
<1>13. t \in Call => IF thread[t].at \in Unqueued THEN r.at \in Unqueued
                     ELSE /\ r.link = thread[t].link /\ r.at \notin Unqueued
                          /\ r.at = "returned" <=> thread[t].at = "returned"
  BY <1>1, <1>3 DEF Unqueued
<1> QED BY <1>1, <1>2, <1>3, <1>5, <1>7, <1>8, <1>9, <1>11, <1>12, <1>13, QuietMove

-----------------------------------------------------------------------------
(* The steps of the client that change a queue, a call or the place of a message. *)

\* A thread on link l moves, and so may the link and the calls on it.
LEMMA CallingMove ==
  ASSUME WireTypes, ClientTypes, Calling, UNCHANGED <<regime, links, server_link_, service_server_links_, shutting_down_>>,
         NEW t \in Thread, NEW r \in ThreadType, thread' = [thread EXCEPT ![t] = r],
         NEW l \in Link, NEW s \in LinkType, link' = [link EXCEPT ![l] = s],
         calls' \in [Call -> CallType],
         thread[t].link = l, r.link \in {l, None}, r.at # "initialize",
         t \in Call => CallOK(t)' /\ (thread[t].at \notin Unqueued => r.link = l /\ r.at \notin Unqueued),
         s.listening = link[l].listening, link[l].dropped => s.dropped, link[l].raced => s.raced,
         \A j \in Call : j = t \/ calls'[j] = calls[j] \/ (thread[j].link = l /\ CallOK(j)'),
         ThreadOK(t)', \A j \in Call : Charged(j, l)' => ChargedOK(j, l)', QueueOK(l)', DropOK(l)'
  PROVE  ClientTypes' /\ Calling'
<1>1. thread' \in [Thread -> ThreadType] /\ thread'[t] = r /\ \A u \in Thread : u # t => thread'[u] = thread[u]
  BY DEF ClientTypes
<1>2. link' \in [Link -> LinkType] /\ link'[l] = s /\ \A m \in Link : m # l => link'[m] = link[m]
  BY DEF ClientTypes
<1>3. ClientTypes' /\ links' = links /\ links \in Nat
  BY <1>1, <1>2, Made DEF ClientTypes
<1>4. \A m \in Link : /\ link[m].listening = link'[m].listening
                      /\ link[m].dropped => link'[m].dropped
                      /\ link[m].raced => link'[m].raced
  BY <1>2
<1>5. \A u \in Thread : ThreadOK(u)'
  <2>1. CallersStay
    BY <1>1, Names DEF CallersStay
  <2> SUFFICES ASSUME NEW u \in Thread, u # t PROVE ThreadOK(u)'
    OBVIOUS
  <2>2. thread'[u] = thread[u] /\ links' \in Nat /\ links <= links'
    BY <1>1, <1>3
  <2> QED BY <2>1, <2>2, <1>4, OthersOK
<1>6. \A j \in Call : CallOK(j)'
  <2> SUFFICES ASSUME NEW j \in Call, j # t, calls'[j] = calls[j] PROVE CallOK(j)'
    OBVIOUS
  <2>1. CallOK(j) /\ thread'[j] = thread[j]
    BY <1>1, Names DEF Calling
  <2> QED BY <2>1, <1>4 DEF CallOK
<1>7. \A j \in Call, m \in Link : Charged(j, m)' => ChargedOK(j, m)'
  <2> SUFFICES ASSUME NEW j \in Call, NEW m \in Link, m # l, Charged(j, m)' PROVE ChargedOK(j, m)'
    OBVIOUS
  <2>1. Charged(j, m) /\ link'[m] = link[m]
    BY <1>2 DEF Charged
  <2>2. ChargedOK(j, m)
    BY <2>1 DEF Calling
  <2>3. j # t /\ calls'[j] = calls[j] /\ thread'[j] = thread[j]
    BY <2>2, <1>1, Names DEF ChargedOK
  <2> QED BY <2>1, <2>2, <2>3 DEF ChargedOK
<1>8. \A m \in Link : QueueOK(m)' /\ DropOK(m)'
  <2> SUFFICES ASSUME NEW m \in Link, m # l PROVE QueueOK(m)' /\ DropOK(m)'
    OBVIOUS
  <2>1. QueueOK(m) /\ DropOK(m) /\ link'[m] = link[m]
    BY <1>2 DEF Calling
  <2>2. link[m].mutex # None => link[m].mutex \in Thread /\ link[m].mutex # t
    BY <2>1 DEF QueueOK, ClientTypes, LinkType
  <2>3. QueueOK(m)'
    BY <2>1, <2>2, <1>1 DEF QueueOK
  <2>4. m # None
    BY Names
  <2>5. DropOK(m)'
    BY <2>1, <2>4, <1>1 DEF DropOK
  <2> QED BY <2>3, <2>5
<1>9. LinksMade'
  <2>1. \A j \in Call : thread'[j].at = "initialize" => thread[j].at = "initialize" /\ thread'[j].link = thread[j].link
    BY <1>1, Names
  <2>2. server_link_ # None => server_link_ \in Link
    BY Made
  <2> QED BY <2>1, <2>2, <1>3, <1>4 DEF Calling, LinksMade
<1> QED BY <1>3, <1>5, <1>6, <1>7, <1>8, <1>9 DEF Calling

\* The messages of the other links stay when a thread moves on its own.
LEMMA OtherLinks ==
  ASSUME \A m \in Link : Carried(m), UNCHANGED server, NEW t \in Thread, NEW l \in Link, thread'[t].link \in {l, None},
         \A u \in Thread : u # t => thread'[u] = thread[u],
         \A m \in Link : m # l => link'[m] = link[m] /\ up'[m] = up[m] /\ down'[m] = down[m]
  PROVE  \A m \in Link : m # l => Carried(m)'
<1> SUFFICES ASSUME NEW m \in Link, m # l PROVE Carried(m)'
  OBVIOUS
<1>1. m # None
  BY Names
<1>2. Carried(m) /\ up'[m] = up[m] /\ down'[m] = down[m] /\ peer'[m] = peer[m] /\ link'[m] = link[m]
  BY DEF server
<1>3. \A u \in Thread : thread'[u].link = m /\ thread'[u].at \in Holding \cup {"take", "write"} => thread'[u] = thread[u]
  BY <1>1
<1>4. server_poll' = server_poll /\ callbacks' = callbacks /\ serving' = serving
  BY DEF server
<1>5. \A i \in DOMAIN callbacks' : callbacks'[i].link = m => \E j \in DOMAIN callbacks : callbacks[j] = callbacks'[i]
  BY <1>4
<1>6. \A u \in Thread : thread'[u].link = m /\ thread'[u].at \in {"ok", "failed"} => link'[m].reading = link[m].reading
  BY <1>2
<1> QED BY <1>2, <1>3, <1>4, <1>5, <1>6, CarriedKept

\* The message of a link stays with the client.
LEMMA BackMoves ==
  ASSUME NEW l \in Link, Carried(l), Back(l), UNCHANGED server, up'[l] = up[l],
         link'[l].listening = link[l].listening,
         DownOK(l)',
         \A t, u \in Thread : Holds(t, l)' /\ Holds(u, l)' => t = u,
         \A t \in Thread : HolderOK(t, l)',
         \A t \in Thread : thread'[t].link = l /\ thread'[t].at \in {"take", "write"} =>
             Ready(l)' /\ thread'[t].at # "write",
         link'[l].header_read \/ link'[l].current # None => Ready(l)'
  PROVE  Carried(l)'
<1>1. peer'[l] = peer[l] /\ server_poll' = server_poll /\ callbacks' = callbacks /\ serving' = serving
  BY DEF server
<1>2. up'[l] = <<>> /\ ~Polling(l)' /\ ~AtServer(l)' /\ link'[l].listening
  <2>1. up[l] = <<>> /\ ~Polling(l) /\ ~AtServer(l)
    BY DEF Carried, InOnePlace
  <2>2. link[l].listening
    BY DEF Carried, PeerOK
  <2> QED BY <2>1, <2>2, <1>1 DEF Polling, AtServer, Queued
<1>3. InOnePlace(l)'
  BY <1>2 DEF InOnePlace, AtServer
<1>4. UpOK(l)'
  BY <1>2 DEF UpOK
<1>5. PeerOK(l)'
  BY <1>1, <1>2 DEF Carried, PeerOK
<1>6. \A i \in DOMAIN callbacks' : EntryOK(callbacks[i], l)'
  BY <1>2 DEF AtServer, Queued, EntryOK
<1>7. EntryOK(serving, l)'
  BY <1>2 DEF AtServer, EntryOK
<1>8. \A t \in Thread : WriterOK(t, l)'
  BY DEF WriterOK
<1> QED BY <1>3, <1>4, <1>5, <1>6, <1>7, <1>8 DEF Carried

\* While it is there, nobody writes.
LEMMA NobodyWrites ==
  ASSUME NEW l \in Link, Carried(l), Back(l), NEW t \in Thread, thread[t].link = l
  PROVE  thread[t].at # "write"
BY DEF Carried, WriterOK

\* A call that was not finished by the step, or whose thread has just come from
\* another place than "returned".
LEMMA MoverOK ==
  ASSUME Calling, NEW t \in Call, thread[t].at # "returned", calls'[t] = calls[t], thread'[t].at \notin Unqueued
  PROVE  CallOK(t)'
BY DEF Calling, CallOK

\* onResponse() gives the response to the current call of the link, whose it is: the invariant is kept.
LEMMA ResponseStep ==
  ASSUME IInv, NEW t \in Thread, Response(t), UNCHANGED server
  PROVE  IInv'
<1>1. PICK l \in Link : /\ thread[t].at = "body" /\ l = On(t) /\ l = thread[t].link /\ link[l] \in LinkType
                        /\ link[l].listening /\ thread[t] \in ThreadType
  BY Where DEF Response
<1>2. Holds(t, l) /\ Back(l) /\ Carried(l)
  BY <1>1 DEF Holds, Holding, Back, IInv
<1>3. HolderOK(t, l)
  BY <1>2 DEF Carried
<1>4. PICK k \in Call : k = link[l].current /\ thread[t].call = k /\ down[l] = <<>>
  BY <1>1, <1>2, <1>3 DEF HolderOK, LinkType
<1>5. PICK r \in ThreadType : /\ thread' = [thread EXCEPT ![t] = r] /\ r.at = "finish" /\ r.link = thread[t].link
                              /\ r.call = thread[t].call
  BY AtMoves DEF Response, IInv, Types, Steps, Holding
<1>6. \E c \in CallType :
          /\ calls' = [calls EXCEPT ![k] = c]
          /\ c.finished = calls[k].finished /\ c.call_finished = calls[k].call_finished /\ c.result = calls[k].result
          /\ c.resp \in {k, calls[k].resp} /\ (c.late => calls[k].call_finished)
  <2>1. calls[k] \in CallType
    BY <1>4 DEF IInv, Types, ClientTypes
  <2>2. PICK a \in Call \cup {None} : /\ a = IF calls[k].success /\ ~calls[k].call_finished THEN k ELSE calls[k].resp
    BY <2>1, <1>4 DEF CallType
  <2>3. PICK b \in BOOLEAN : b = (calls[k].success /\ calls[k].call_finished)
    OBVIOUS
  <2> DEFINE c == [calls[k] EXCEPT !.resp = a, !.late = b]
  <2>4. /\ c \in CallType /\ c.resp = a /\ c.late = b
        /\ c.finished = calls[k].finished /\ c.call_finished = calls[k].call_finished /\ c.result = calls[k].result
    BY <2>1 DEF CallType
  <2>5. calls' = [calls EXCEPT ![k].resp = IF calls[k].success /\ ~calls[k].call_finished THEN thread[t].call ELSE @,
                             ![k].late = calls[k].success /\ calls[k].call_finished]
    BY <1>1, <1>4 DEF Response
  <2>6. calls' = [calls EXCEPT ![k] = c]
    <3>1. a = IF calls[k].success /\ ~calls[k].call_finished THEN thread[t].call ELSE calls[k].resp
      BY <1>4, <2>2
    <3>2. calls' = [calls EXCEPT ![k].resp = a, ![k].late = b]
      BY <2>3, <2>5, <3>1, Zenon
    <3> QED BY <3>2
  <2> HIDE DEF c
  <2> QED BY <2>2, <2>3, <2>4, <2>6
<1>7. PICK c \in CallType :
          /\ calls' = [calls EXCEPT ![k] = c]
          /\ c.finished = calls[k].finished /\ c.call_finished = calls[k].call_finished /\ c.result = calls[k].result
          /\ c.resp \in {k, calls[k].resp} /\ (c.late => calls[k].call_finished)
  BY <1>6
<1>8. UNCHANGED <<wire, link, server_link_, links, service_server_links_, shutting_down_, ended>>
  BY DEF Response
<1>9. /\ thread \in [Thread -> ThreadType] /\ calls \in [Call -> CallType] /\ link \in [Link -> LinkType]
      /\ thread'[t] = r /\ (\A u \in Thread : u # t => thread'[u] = thread[u])
      /\ calls'[k] = c /\ (\A j \in Call : j # k => calls'[j] = calls[j]) /\ calls' \in [Call -> CallType]
  BY <1>4, <1>5, <1>7 DEF IInv, Types, ClientTypes
<1>10. Charged(k, l) /\ ChargedOK(k, l)
  BY <1>1, <1>4 DEF Charged, IInv, Calling
<1>11. calls[k].call_finished => thread[k].at = "returned" /\ k # t /\ link[l].raced
  <2> SUFFICES ASSUME calls[k].call_finished PROVE thread[k].at = "returned" /\ k # t /\ link[l].raced
    OBVIOUS
  <2>1. thread[k].at = "returned" /\ link[l].dropped
    BY <1>4, <1>10 DEF IInv, Calling, CallOK, ChargedOK
  <2>2. link[l].raced
    BY <1>1, <2>1 DEF IInv, Calling, DropOK, Holding
  <2> QED BY <2>1, <2>2, <1>1
<1>12. CallOK(k)'
  <2>1. CallOK(k) /\ k \in Thread
    BY <1>4, Names DEF IInv, Calling
  <2>2. thread'[k].link = l /\ thread'[k].at \notin Unqueued
    BY <2>1, <1>1, <1>5, <1>9, <1>10 DEF ChargedOK, Unqueued
  <2>3. calls[k].call_finished => thread'[k].at = "returned"
    BY <2>1, <1>9, <1>11
  <2> QED BY <2>1, <2>2, <2>3, <1>1, <1>7, <1>8, <1>9, <1>11 DEF CallOK
<1>13. t \in Call => CallOK(t)' /\ (thread[t].at \notin Unqueued => r.link = l /\ r.at \notin Unqueued)
  <2>1. r.at \notin Unqueued
    BY <1>5 DEF Unqueued
  <2>2. t \in Call /\ t # k => CallOK(t)'
    BY <2>1, <1>1, <1>9, MoverOK DEF IInv
  <2> QED BY <2>1, <2>2, <1>1, <1>5, <1>12
<1>14. ThreadOK(t)'
  BY <1>1, <1>5, <1>8, <1>9 DEF ThreadOK, Clearing
<1>15. \A j \in Call : Charged(j, l)' => ChargedOK(j, l)'
  <2> SUFFICES ASSUME NEW j \in Call, Charged(j, l)' PROVE ChargedOK(j, l)'
    OBVIOUS
  <2>1. Charged(j, l) /\ j \in Thread
    BY <1>8, Names DEF Charged
  <2>2. ChargedOK(j, l)
    BY <1>1, <2>1 DEF IInv, Calling
  <2>3. calls'[j].finished = calls[j].finished
    BY <1>7, <1>9
  <2>4. thread'[j].link = l /\ thread'[j].at \notin Unqueued /\ (thread'[j].at = "returned" => thread[j].at = "returned")
    BY <2>1, <2>2, <1>1, <1>5, <1>9 DEF ChargedOK, Unqueued
  <2> QED BY <2>2, <2>3, <2>4, <1>8 DEF ChargedOK
<1>16. QueueOK(l)' /\ DropOK(l)'
  <2>1. QueueOK(l) /\ DropOK(l)
    BY <1>1 DEF IInv, Calling
  <2>2. link[l].mutex # None => link[l].mutex \in Thread /\ link[l].mutex # t
    BY <2>1, <1>1 DEF QueueOK, LinkType
  <2>3. QueueOK(l)'
    BY <2>1, <2>2, <1>8, <1>9 DEF QueueOK
  <2>4. DropOK(l)'
    BY <2>1, <1>1, <1>8, <1>9 DEF DropOK, Holding
  <2> QED BY <2>3, <2>4
<1>17. link' = [link EXCEPT ![l] = link[l]]
  BY <1>1, <1>8, SameLink DEF IInv, Types
<1>18. \A j \in Call : j = t \/ calls'[j] = calls[j] \/ (thread[j].link = l /\ CallOK(j)')
  BY <1>9, <1>10, <1>12 DEF ChargedOK
<1>19. ClientTypes' /\ Calling'
  <2>1. r.link \in {l, None} /\ r.at # "initialize" /\ thread[t].link = l /\ WireTypes /\ ClientTypes /\ Calling
        /\ UNCHANGED <<regime, links, server_link_, service_server_links_, shutting_down_>>
    BY <1>1, <1>5, <1>8 DEF IInv, Types, wire
  <2> QED BY <2>1, <1>1, <1>5, <1>9, <1>13, <1>14, <1>15, <1>16, <1>17, <1>18, CallingMove
<1>20. Carried(l)'
  <2>1. \A u \in Thread : Holds(u, l) => u = t
    BY <1>2 DEF Carried, InOnePlace
  <2>2. \A u \in Thread : Holds(u, l)' => u = t
    BY <2>1, <1>9 DEF Holds
  <2>3. DownOK(l)' /\ down'[l] = <<>> /\ up'[l] = up[l]
    BY <1>4, <1>8 DEF DownOK, wire
  <2>4. HolderOK(t, l)'
    BY <1>4, <1>5, <1>8, <1>9, <2>3, Names DEF HolderOK
  <2>5. \A u \in Thread : HolderOK(u, l)'
    BY <2>2, <2>4 DEF HolderOK
  <2>6. Ready(l)
    BY <1>2, <1>4, Names DEF Carried
  <2>7. Ready(l)'
    BY <2>6, <2>3, <1>5, <1>9 DEF Ready, server
  <2>8. \A u \in Thread : thread'[u].link = l => thread'[u].at # "write"
    BY <1>2, <1>5, <1>9, NobodyWrites
  <2> QED BY <1>1, <1>2, <1>8, <2>2, <2>3, <2>5, <2>7, <2>8, BackMoves
<1>21. \A m \in Link : m # l => Carried(m)'
  <2>1. thread'[t].link \in {l, None} /\ UNCHANGED <<link, up, down>> /\ \A m \in Link : Carried(m)
    BY <1>1, <1>5, <1>8, <1>9 DEF wire, IInv
  <2> QED BY <2>1, <1>1, <1>9, OtherLinks
<1> QED BY <1>8, <1>19, <1>20, <1>21, ClientStep DEF wire, IInv, Types, WireTypes

\* callFinished() notifies the caller, and the link has no current call: the invariant is kept.
LEMMA CallFinishedStep ==
  ASSUME IInv, NEW t \in Thread, CallFinished(t), UNCHANGED server
  PROVE  IInv'
<1>1. PICK l \in Link : /\ thread[t].at = "finish" /\ l = On(t) /\ l = thread[t].link /\ link[l] \in LinkType
                        /\ link[l].listening /\ thread[t] \in ThreadType
  BY Where DEF CallFinished
<1>2. Holds(t, l) /\ Back(l) /\ Carried(l)
  BY <1>1 DEF Holds, Holding, Back, IInv
<1>3. HolderOK(t, l)
  BY <1>2 DEF Carried
<1>4. PICK k \in Call : k = link[l].current /\ down[l] = <<>>
  BY <1>1, <1>2, <1>3 DEF HolderOK, LinkType
<1>5. PICK r \in ThreadType : /\ thread' = [thread EXCEPT ![t] = r] /\ r.at = "take" /\ r.link = thread[t].link
                              /\ r.call = thread[t].call
  BY AtMoves DEF CallFinished, IInv, Types, Steps
<1>6. \E c \in CallType :
          /\ calls' = [calls EXCEPT ![k] = c] /\ c.finished
          /\ c.call_finished = calls[k].call_finished /\ c.result = calls[k].result
          /\ c.resp = calls[k].resp /\ c.late = calls[k].late
  <2> DEFINE c == [calls[k] EXCEPT !.finished = TRUE]
  <2>1. /\ c \in CallType /\ c.finished /\ c.call_finished = calls[k].call_finished /\ c.result = calls[k].result
        /\ c.resp = calls[k].resp /\ c.late = calls[k].late
    BY DEF CallType, IInv, Types, ClientTypes
  <2>2. calls' = [calls EXCEPT ![k] = c]
    BY <1>1, <1>4 DEF CallFinished
  <2> HIDE DEF c
  <2> QED BY <2>1, <2>2
<1>7. PICK c \in CallType :
          /\ calls' = [calls EXCEPT ![k] = c] /\ c.finished
          /\ c.call_finished = calls[k].call_finished /\ c.result = calls[k].result
          /\ c.resp = calls[k].resp /\ c.late = calls[k].late
  BY <1>6
<1>8. UNCHANGED <<wire, server_link_, links, service_server_links_, shutting_down_, ended>>
  BY DEF CallFinished
<1>9. \E s \in LinkType :
          /\ link' = [link EXCEPT ![l] = s] /\ s.queue = link[l].queue /\ s.current = None /\ s.mutex = link[l].mutex
          /\ s.dropped = link[l].dropped /\ s.raced = link[l].raced /\ s.listening = link[l].listening
          /\ s.header_read = link[l].header_read /\ s.reading = link[l].reading
  <2> DEFINE s == [link[l] EXCEPT !.current = None]
  <2>1. /\ s \in LinkType /\ s.queue = link[l].queue /\ s.current = None /\ s.mutex = link[l].mutex
        /\ s.dropped = link[l].dropped /\ s.raced = link[l].raced /\ s.listening = link[l].listening
        /\ s.header_read = link[l].header_read /\ s.reading = link[l].reading
    BY <1>1 DEF LinkType
  <2>2. link' = [link EXCEPT ![l] = s]
    BY <1>1 DEF CallFinished
  <2> HIDE DEF s
  <2> QED BY <2>1, <2>2
<1>10. PICK s \in LinkType :
          /\ link' = [link EXCEPT ![l] = s] /\ s.queue = link[l].queue /\ s.current = None /\ s.mutex = link[l].mutex
          /\ s.dropped = link[l].dropped /\ s.raced = link[l].raced /\ s.listening = link[l].listening
          /\ s.header_read = link[l].header_read /\ s.reading = link[l].reading
  BY <1>9
<1>11. /\ thread \in [Thread -> ThreadType] /\ calls \in [Call -> CallType] /\ link \in [Link -> LinkType]
       /\ thread'[t] = r /\ (\A u \in Thread : u # t => thread'[u] = thread[u])
       /\ calls'[k] = c /\ (\A j \in Call : j # k => calls'[j] = calls[j]) /\ calls' \in [Call -> CallType]
       /\ link'[l] = s /\ (\A m \in Link : m # l => link'[m] = link[m])
  BY <1>5, <1>7, <1>10 DEF IInv, Types, ClientTypes
<1>12. Charged(k, l) /\ ChargedOK(k, l) /\ QueueOK(l) /\ DropOK(l)
  BY <1>1, <1>4 DEF Charged, IInv, Calling
<1>13. CallOK(k)'
  <2>1. CallOK(k) /\ k \in Thread
    BY <1>4, Names DEF IInv, Calling
  <2>2. thread'[k].link = l /\ thread'[k].at \notin Unqueued /\ (thread[k].at = "returned" => thread'[k].at = "returned")
    BY <2>1, <1>1, <1>5, <1>11, <1>12 DEF ChargedOK, Unqueued
  <2>3. c.late => thread'[k].at = "returned" /\ link'[l].raced
    BY <2>1, <2>2, <1>7, <1>10, <1>11, <1>12 DEF CallOK, ChargedOK
  <2> QED BY <2>1, <2>2, <2>3, <1>1, <1>7, <1>11 DEF CallOK
<1>14. t \in Call => CallOK(t)' /\ (thread[t].at \notin Unqueued => r.link = l /\ r.at \notin Unqueued)
  <2>1. r.at \notin Unqueued
    BY <1>5 DEF Unqueued
  <2>2. t \in Call /\ t # k => CallOK(t)'
    BY <2>1, <1>1, <1>11, MoverOK DEF IInv
  <2> QED BY <2>1, <2>2, <1>1, <1>5, <1>13
<1>15. ThreadOK(t)'
  BY <1>1, <1>5, <1>10, <1>11 DEF ThreadOK, Clearing
<1>16. \A j \in Call : Charged(j, l)' => ChargedOK(j, l)'
  <2> SUFFICES ASSUME NEW j \in Call, Charged(j, l)' PROVE ChargedOK(j, l)'
    OBVIOUS
  <2>1. Charged(j, l) /\ j \in Thread /\ j # k
    BY <1>4, <1>10, <1>11, <1>12, Names DEF Charged, QueueOK
  <2>2. ChargedOK(j, l)
    BY <1>1, <2>1 DEF IInv, Calling
  <2>3. calls'[j].finished = calls[j].finished
    BY <2>1, <1>11
  <2>4. thread'[j].link = l /\ thread'[j].at \notin Unqueued /\ (thread'[j].at = "returned" => thread[j].at = "returned")
    BY <2>1, <2>2, <1>1, <1>5, <1>11 DEF ChargedOK, Unqueued
  <2> QED BY <2>2, <2>3, <2>4, <1>10, <1>11 DEF ChargedOK
<1>17. QueueOK(l)' /\ DropOK(l)'
  <2>1. link[l].mutex # None => link[l].mutex \in Thread /\ link[l].mutex # t
    BY <1>1, <1>12 DEF QueueOK, LinkType
  <2>2. \A i \in DOMAIN link[l].queue : link[l].queue[i] # None
    BY <1>1, Names DEF LinkType
  <2>3. QueueOK(l)'
    <3>1. \A i, j \in DOMAIN s.queue : s.queue[i] = s.queue[j] => i = j
      BY <1>10, <1>12 DEF QueueOK
    <3>2. \A i \in DOMAIN s.queue : s.queue[i] # s.current
      BY <2>2, <1>10
    <3>3. s.mutex # None => /\ thread'[s.mutex].link = l /\ thread'[s.mutex].at \in {"cancel", "yield", "sweep"}
                            /\ thread'[s.mutex].at # "sweep" => s.queue # <<>>
      BY <2>1, <1>10, <1>11, <1>12 DEF QueueOK
    <3>4. s.listening /\ link'[l] = s
      BY <1>1, <1>10, <1>11
    <3> QED BY <3>1, <3>2, <3>3, <3>4 DEF QueueOK
  <2>4. DropOK(l)'
    BY <1>1, <1>10, <1>11, <1>12 DEF DropOK, Holding
  <2> QED BY <2>3, <2>4
<1>18. \A j \in Call : j = t \/ calls'[j] = calls[j] \/ (thread[j].link = l /\ CallOK(j)')
  BY <1>11, <1>12, <1>13 DEF ChargedOK
<1>19. ClientTypes' /\ Calling'
  <2>1. r.link \in {l, None} /\ r.at # "initialize" /\ thread[t].link = l /\ WireTypes /\ ClientTypes /\ Calling
        /\ UNCHANGED <<regime, links, server_link_, service_server_links_, shutting_down_>>
    BY <1>1, <1>5, <1>8 DEF IInv, Types, wire
  <2> QED BY <2>1, <1>1, <1>5, <1>10, <1>11, <1>14, <1>15, <1>16, <1>17, <1>18, CallingMove
<1>20. Carried(l)'
  <2>1. \A u \in Thread : Holds(u, l) => u = t
    BY <1>2 DEF Carried, InOnePlace
  <2>2. \A u \in Thread : ~Holds(u, l)'
    BY <2>1, <1>5, <1>11 DEF Holds, Holding
  <2>3. DownOK(l)' /\ down'[l] = <<>> /\ up'[l] = up[l]
    BY <1>4, <1>8 DEF DownOK, wire
  <2>4. \A u \in Thread : HolderOK(u, l)'
    BY <2>2 DEF HolderOK
  <2>5. Ready(l)
    BY <1>2, <1>4, Names DEF Carried
  <2>6. Ready(l)'
    BY <2>5, <2>3, <1>5, <1>11 DEF Ready, server
  <2>7. \A u \in Thread : thread'[u].link = l => thread'[u].at # "write"
    BY <1>2, <1>5, <1>11, NobodyWrites
  <2> QED BY <1>2, <1>10, <1>11, <2>2, <2>3, <2>4, <2>6, <2>7, BackMoves
<1>21. \A m \in Link : m # l => Carried(m)'
  <2>1. thread'[t].link \in {l, None} /\ UNCHANGED <<up, down>> /\ \A m \in Link : Carried(m)
    BY <1>1, <1>5, <1>8, <1>11 DEF wire, IInv
  <2> QED BY <2>1, <1>1, <1>11, OtherLinks
<1> QED BY <1>8, <1>19, <1>20, <1>21, ClientStep DEF wire, IInv, Types, WireTypes

\* onHeaderReceived(): the first call is to be written, or header_read_ is set: the invariant is kept.
LEMMA HeaderReceivedStep ==
  ASSUME IInv, NEW t \in Thread, HeaderReceived(t), UNCHANGED server
  PROVE  IInv'
<1>1. PICK l \in Link : /\ thread[t].at = "header" /\ l = On(t) /\ l = thread[t].link /\ link[l] \in LinkType
                        /\ link[l].listening /\ thread[t] \in ThreadType
  BY Where DEF HeaderReceived
<1>2. Holds(t, l) /\ Back(l) /\ Carried(l)
  BY <1>1 DEF Holds, Holding, Back, IInv
<1>3. link[l].current = None /\ peer[l].parent # None /\ down[l] = <<>>
  BY <1>1, <1>2 DEF HolderOK, Carried
<1>4. \E r \in ThreadType, s \in LinkType :
          /\ thread' = [thread EXCEPT ![t] = r]
          /\ (r = Idle /\ t \notin Call) \/ (r.at \in {"read", "wait", "take"} /\ r.link = l /\ (r.at # "take" => t \in Call))
          /\ link' = [link EXCEPT ![l] = s] /\ s.queue = link[l].queue /\ s.current = None /\ s.mutex = link[l].mutex
          /\ s.dropped = link[l].dropped /\ s.raced = link[l].raced /\ s.listening
  <2>1. CASE link[l].queue = <<>>
    <3>1. Rest(t) /\ link' = [link EXCEPT ![l] = Leave(t, [link[l] EXCEPT !.header_read = TRUE])]
      BY <1>1, <2>1 DEF HeaderReceived, IInv, Types, ClientTypes
    <3>2. PICK r \in ThreadType :
              /\ thread' = [thread EXCEPT ![t] = r]
              /\ IF t \in Call THEN r.at \in {"read", "wait"} /\ r.link = thread[t].link /\ r.call = None ELSE r = Idle
      BY <3>1, <1>1, Resting DEF IInv, Types
    <3> DEFINE q == [link[l] EXCEPT !.header_read = TRUE]
    <3>3. /\ q \in LinkType /\ q.queue = link[l].queue /\ q.current = None /\ q.mutex = link[l].mutex
          /\ q.dropped = link[l].dropped /\ q.raced = link[l].raced /\ q.listening
      BY <1>1, <1>3 DEF LinkType
    <3>4. link' = [link EXCEPT ![l] = Leave(t, q)]
      BY <3>1
    <3> HIDE DEF q
    <3>5. /\ Leave(t, q) \in LinkType /\ Leave(t, q).queue = link[l].queue /\ Leave(t, q).current = None
          /\ Leave(t, q).mutex = link[l].mutex /\ Leave(t, q).dropped = link[l].dropped
          /\ Leave(t, q).raced = link[l].raced /\ Leave(t, q).listening
      BY <3>3, Leaving
    <3>6. (r = Idle /\ t \notin Call) \/ (r.at \in {"read", "wait", "take"} /\ r.link = l /\ (r.at # "take" => t \in Call))
      BY <3>2, <1>1
    <3> QED BY <3>2, <3>4, <3>5, <3>6
  <2>2. CASE link[l].queue # <<>>
    <3>1. At(t, "take") /\ UNCHANGED link
      BY <1>1, <2>2 DEF HeaderReceived
    <3>2. PICK r \in ThreadType : thread' = [thread EXCEPT ![t] = r] /\ r.at = "take" /\ r.link = thread[t].link
      BY <3>1, AtMoves DEF IInv, Types, Steps
    <3>3. link' = [link EXCEPT ![l] = link[l]]
      BY <3>1, SameLink DEF IInv, Types
    <3> QED BY <3>2, <3>3, <1>1, <1>3
  <2> QED BY <2>1, <2>2
<1>5. PICK r \in ThreadType, s \in LinkType :
          /\ thread' = [thread EXCEPT ![t] = r]
          /\ (r = Idle /\ t \notin Call) \/ (r.at \in {"read", "wait", "take"} /\ r.link = l /\ (r.at # "take" => t \in Call))
          /\ link' = [link EXCEPT ![l] = s] /\ s.queue = link[l].queue /\ s.current = None /\ s.mutex = link[l].mutex
          /\ s.dropped = link[l].dropped /\ s.raced = link[l].raced /\ s.listening
  BY <1>4
<1>6. UNCHANGED <<wire, calls, server_link_, links, service_server_links_, shutting_down_>>
  BY DEF HeaderReceived
<1>7. thread'[t] = r /\ link'[l] = s
  BY <1>5 DEF IInv, Types, ClientTypes
<1>8. /\ ClientTypes' /\ Calling'
      /\ thread'[t] = r /\ (\A u \in Thread : u # t => thread'[u] = thread[u])
      /\ link'[l] = s /\ (\A m \in Link : m # l => link'[m] = link[m])
  <2>1. ThreadOK(t)'
    BY <1>5, <1>7 DEF ThreadOK, Idle, Clearing
  <2>2. /\ thread[t].at \notin {"cancel", "yield", "sweep"} /\ r.at # "initialize" /\ thread[t].at \in Busy
        /\ t \in Call => IF thread[t].at \in Unqueued THEN r.at \in Unqueued
                         ELSE /\ r.link = thread[t].link /\ r.at \notin Unqueued
                              /\ r.at = "returned" <=> thread[t].at = "returned"
        /\ r.at \in Busy => r.link = thread[t].link
    BY <1>1, <1>5 DEF Unqueued, Busy, Holding, Idle
  <2>3. /\ calls' \in [Call -> CallType] /\ links' \in 0 .. regime.links /\ links <= links' /\ links' = links
        /\ service_server_links_' \subseteq 1 .. links' /\ shutting_down_' \in BOOLEAN /\ calls' = calls
        /\ server_link_' \in {server_link_, None} /\ WireTypes /\ ClientTypes /\ Calling /\ UNCHANGED regime
    BY <1>6, Made DEF wire, IInv, Types, ClientTypes
  <2>4. \A k \in Call : /\ calls'[k].finished = calls[k].finished /\ calls'[k].call_finished = calls[k].call_finished
                        /\ calls'[k].resp = calls[k].resp /\ calls'[k].result = calls[k].result
                        /\ calls'[k].late = calls[k].late
    BY <2>3
  <2>5. s.current = link[l].current /\ s.listening = link[l].listening
        /\ (s.header_read => link[l].header_read \/ link[l].listening)
    BY <1>1, <1>3, <1>5 DEF LinkType
  <2> QED BY <1>5, <2>1, <2>2, <2>3, <2>4, <2>5, QuietCalling
<1>9. Carried(l)'
  <2>1. \A u \in Thread : Holds(u, l) => u = t
    BY <1>2 DEF Carried, InOnePlace
  <2>2. \A u \in Thread : ~Holds(u, l)'
    BY <2>1, <1>5, <1>8 DEF Holds, Holding, Idle
  <2>3. DownOK(l)' /\ down'[l] = <<>> /\ up'[l] = up[l]
    BY <1>3, <1>6 DEF DownOK, wire
  <2>4. \A u \in Thread : HolderOK(u, l)'
    BY <2>2 DEF HolderOK
  <2>5. Ready(l)'
    BY <2>2, <2>3, <1>3 DEF Ready, server, Holds, Holding
  <2>6. \A u \in Thread : thread'[u].link = l => thread'[u].at # "write"
    <3>1. r.at # "write"
      BY <1>5 DEF Idle
    <3> QED BY <3>1, <1>2, <1>8, NobodyWrites
  <2> QED BY <1>1, <1>2, <1>5, <1>8, <2>2, <2>3, <2>4, <2>5, <2>6, BackMoves DEF LinkType
<1>10. \A m \in Link : m # l => Carried(m)'
  <2>1. thread'[t].link \in {l, None} /\ UNCHANGED <<up, down>> /\ \A m \in Link : Carried(m)
    BY <1>1, <1>5, <1>6, <1>8 DEF wire, IInv, Idle
  <2> QED BY <2>1, <1>8, OtherLinks
<1> QED BY <1>6, <1>8, <1>9, <1>10, ClientStep DEF wire, IInv, Types, WireTypes

\* A thread takes what the server has written, and is the only one to hold it: the invariant is kept.
LEMMA ReadStep ==
  ASSUME IInv, NEW t \in Thread, NEW l \in Link, Read(t, l), UNCHANGED server
  PROVE  IInv'
<1>1. /\ ~link[l].dropped /\ link[l].reading # "none" /\ down[l] # <<>> /\ link[l] \in LinkType /\ thread[t] \in ThreadType
      /\ (t \notin Call /\ thread[t].at = "idle") \/ (t \in Call /\ thread[t].at = "read" /\ thread[t].link = l)
  BY Names DEF Read, Readable, On, IInv, Types, ClientTypes
<1>2. Back(l) /\ Carried(l) /\ DownOK(l) /\ link[l].listening
  BY <1>1 DEF Back, Carried, PeerOK, IInv
<1>3. \A u \in Thread : ~Holds(u, l)
  BY <1>1, <1>2 DEF Carried, HolderOK
<1>4. \E o \in {"header", "error", "ok", "failed", "body"}, k \in Call \cup {None} :
          /\ Head(down[l]) = <<o, k>>
          /\ IF o \in {"ok", "failed"}
             THEN link[l].current # None /\ Tail(down[l]) = <<<<"body", link[l].current>>>>
             ELSE Tail(down[l]) = <<>>
          /\ o = "header" => link[l].current = None /\ peer[l].parent # None
          /\ o = "error" => link[l].current = None /\ peer[l].parent = None
          /\ o = "body" => k = link[l].current /\ link[l].current # None
  <2>1. link[l].current \in Call \cup {None}
    BY <1>1 DEF LinkType
  <2>2. CASE down[l] = <<<<"header", None>>>> /\ link[l].current = None /\ peer[l].parent # None
    BY <2>2
  <2>3. CASE down[l] = <<<<"error", None>>>> /\ link[l].current = None /\ peer[l].parent = None
    BY <2>3
  <2>4. CASE link[l].current # None /\ down[l] = <<<<"body", link[l].current>>>>
    BY <2>1, <2>4
  <2>5. ASSUME NEW o \in {"ok", "failed"}, link[l].current # None,
               down[l] = <<<<o, link[l].current>>, <<"body", link[l].current>>>>
        PROVE  Head(down[l]) = <<o, link[l].current>> /\ Tail(down[l]) = <<<<"body", link[l].current>>>>
    BY <2>5
  <2>6. CASE link[l].current # None
             /\ \E o \in {"ok", "failed"} : down[l] = <<<<o, link[l].current>>, <<"body", link[l].current>>>>
    BY <2>1, <2>5, <2>6
  <2> QED BY <1>1, <1>2, <2>2, <2>3, <2>4, <2>6 DEF DownOK
<1>5. PICK o \in {"header", "error", "ok", "failed", "body"}, k \in Call \cup {None} :
          /\ Head(down[l]) = <<o, k>>
          /\ IF o \in {"ok", "failed"}
             THEN link[l].current # None /\ Tail(down[l]) = <<<<"body", link[l].current>>>>
             ELSE Tail(down[l]) = <<>>
          /\ o = "header" => link[l].current = None /\ peer[l].parent # None
          /\ o = "error" => link[l].current = None /\ peer[l].parent = None
          /\ o = "body" => k = link[l].current /\ link[l].current # None
  BY <1>4
<1> DEFINE r == [at |-> o, link |-> l, call |-> k]
           s == [link[l] EXCEPT !.reading = "none", !.reader = t]
<1>6. r \in ThreadType /\ r.at = o /\ r.link = l /\ r.call = k /\ thread' = [thread EXCEPT ![t] = r]
  <2>1. Head(down[l])[1] = o /\ Head(down[l])[2] = k
    BY <1>5
  <2>2. thread' = [thread EXCEPT ![t] = r]
    BY <2>1 DEF Read
  <2> QED BY <2>2 DEF ThreadType, Steps, Holding
<1>7. /\ s \in LinkType /\ link' = [link EXCEPT ![l] = s] /\ s.queue = link[l].queue /\ s.current = link[l].current
      /\ s.mutex = link[l].mutex /\ s.dropped = link[l].dropped /\ s.raced = link[l].raced
      /\ s.listening = link[l].listening /\ s.header_read = link[l].header_read /\ s.reading = "none"
  BY <1>1 DEF Read, LinkType
<1> HIDE DEF r, s
<1>8. UNCHANGED <<regime, up, client_closed, server_closed, cut, calls, server_link_, links, service_server_links_,
                  shutting_down_>> /\ down' = [down EXCEPT ![l] = Tail(@)]
  BY DEF Read
<1>9. down' \in [Link -> Seq(DownType)] /\ down'[l] = Tail(down[l]) /\ \A m \in Link : m # l => down'[m] = down[m]
  <2>1. down \in [Link -> Seq(DownType)]
    BY DEF IInv, Types, WireTypes
  <2>2. Tail(down[l]) \in Seq(DownType)
    BY <2>1, <1>1
  <2> QED BY <2>1, <2>2, <1>8
<1>10. thread'[t] = r /\ link'[l] = s
  BY <1>6, <1>7 DEF IInv, Types, ClientTypes
<1>11. /\ ClientTypes' /\ Calling'
       /\ thread'[t] = r /\ (\A u \in Thread : u # t => thread'[u] = thread[u])
       /\ link'[l] = s /\ (\A m \in Link : m # l => link'[m] = link[m])
  <2>1. ThreadOK(t)'
    BY <1>2, <1>6, <1>7, <1>10 DEF ThreadOK, Clearing
  <2>2. /\ thread[t].at \notin {"cancel", "yield", "sweep"} /\ r.at # "initialize"
        /\ t \in Call => IF thread[t].at \in Unqueued THEN r.at \in Unqueued
                         ELSE /\ r.link = thread[t].link /\ r.at \notin Unqueued
                              /\ r.at = "returned" <=> thread[t].at = "returned"
    BY <1>1, <1>6 DEF Unqueued
  <2>3. /\ calls' \in [Call -> CallType] /\ links' \in 0 .. regime.links /\ links <= links'
        /\ service_server_links_' \subseteq 1 .. links' /\ shutting_down_' \in BOOLEAN /\ calls' = calls
        /\ server_link_' \in {server_link_, None} /\ WireTypes /\ ClientTypes /\ Calling /\ UNCHANGED regime
    BY <1>8, Made DEF IInv, Types, ClientTypes
  <2>4. \A j \in Call : /\ calls'[j].finished = calls[j].finished /\ calls'[j].call_finished = calls[j].call_finished
                        /\ calls'[j].resp = calls[j].resp /\ calls'[j].result = calls[j].result
                        /\ calls'[j].late = calls[j].late
    BY <2>3
  <2>5. /\ ~link[r.link].dropped
        /\ s.header_read => link[l].header_read \/ link[l].listening
        /\ link[l].listening => s.listening
        /\ s.listening => link[l].listening \/ (thread[t].at = "initialize" /\ thread[t].link = l)
        /\ server_link_' \in {server_link_, None} \/ (server_link_' \in 1 .. links' /\ link'[server_link_'].listening)
    BY <1>1, <1>6, <1>7, <2>3
  <2> QED BY <1>6, <1>7, <2>1, <2>2, <2>3, <2>4, <2>5, QuietCalling
<1>12. Carried(l)'
  <2>1. \A u \in Thread : Holds(u, l)' => u = t
    BY <1>3, <1>11 DEF Holds
  <2>2. HolderOK(t, l)'
    BY <1>5, <1>6, <1>7, <1>9, <1>11 DEF HolderOK, server
  <2>3. \A u \in Thread : HolderOK(u, l)'
    BY <2>1, <2>2 DEF HolderOK
  <2>4. DownOK(l)'
    BY <1>5, <1>7, <1>9, <1>11 DEF DownOK
  <2>5. Ready(l) => Ready(l)'
    <3> SUFFICES ASSUME Ready(l) PROVE Ready(l)'
      OBVIOUS
    <3>1. o # "header"
      <4> SUFFICES ASSUME o = "header" PROVE FALSE
        OBVIOUS
      <4>1. link[l].current = None
        BY <1>5
      <4>2. down[l] = <<<<"error", None>>>>
        BY <4>1, <1>1, <1>2 DEF Ready, DownOK
      <4> QED BY <4>2, <1>5
    <3>2. down'[l] # <<<<"header", None>>>>
      <4>1. CASE o \in {"ok", "failed"}
        <5>1. down'[l] = <<<<"body", link[l].current>>>>
          BY <4>1, <1>5, <1>9
        <5>2. <<<<"body", link[l].current>>>> # <<<<"header", None>>>>
          <6>1. <<"body", link[l].current>> # <<"header", None>>
            OBVIOUS
          <6> QED BY <6>1
        <5> QED BY <5>1, <5>2
      <4>2. CASE o \notin {"ok", "failed"}
        <5>1. down'[l] = <<>>
          BY <4>2, <1>5, <1>9
        <5> QED BY <5>1
      <4> QED BY <4>1, <4>2
    <3> QED BY <3>1, <3>2, <1>6, <1>11 DEF Ready, server
  <2>6. \A u \in Thread : thread'[u].link = l /\ thread'[u].at \in {"take", "write"} => thread'[u] = thread[u]
    BY <1>6, <1>11
  <2>7. \A u \in Thread : thread'[u].link = l /\ thread'[u].at \in {"take", "write"} =>
            Ready(l)' /\ thread'[u].at # "write"
    BY <2>5, <2>6, <1>2, NobodyWrites DEF Carried, WriterOK
  <2>8. link'[l].header_read \/ link'[l].current # None => Ready(l)'
    BY <2>5, <1>2, <1>7, <1>11 DEF Carried
  <2> QED BY <1>2, <1>7, <1>8, <1>11, <2>1, <2>3, <2>4, <2>7, <2>8, BackMoves
<1>13. \A m \in Link : m # l => Carried(m)'
  <2>1. thread'[t].link \in {l, None} /\ UNCHANGED up /\ \A m \in Link : Carried(m)
    BY <1>6, <1>8, <1>11 DEF IInv
  <2> QED BY <2>1, <1>9, <1>11, OtherLinks
<1> QED BY <1>8, <1>9, <1>11, <1>12, <1>13, ClientStep DEF IInv, Types, WireTypes

\* A link that carries no message.
NoMessage(l) == up[l] = <<>> /\ ~Polling(l) /\ ~AtServer(l) /\ ~Back(l)

\* It carries none after the step either, or one that the client has written.
LEMMA NoMessageMoves ==
  ASSUME NEW l \in Link, Carried(l), NoMessage(l), UNCHANGED server, down'[l] = down[l], UpOK(l)', link'[l].listening,
         \A t \in Thread : ~Holds(t, l)',
         \A t \in Thread : WriterOK(t, l)',
         link'[l].header_read \/ link'[l].current # None => Ready(l)'
  PROVE  Carried(l)'
<1>1. peer'[l] = peer[l] /\ server_poll' = server_poll /\ callbacks' = callbacks /\ serving' = serving
  BY DEF server
<1>2. ~Polling(l)' /\ ~AtServer(l)' /\ ~Back(l)' /\ down'[l] = <<>>
  BY <1>1 DEF NoMessage, Polling, AtServer, Queued, Back
<1>3. InOnePlace(l)'
  BY <1>2 DEF InOnePlace, AtServer
<1>4. PeerOK(l)'
  BY <1>1, <1>2 DEF Carried, PeerOK
<1>5. \A i \in DOMAIN callbacks' : EntryOK(callbacks[i], l)'
  BY <1>2 DEF AtServer, Queued, EntryOK
<1>6. EntryOK(serving, l)'
  BY <1>2 DEF AtServer, EntryOK
<1>7. DownOK(l)' /\ \A t \in Thread : HolderOK(t, l)'
  BY <1>2 DEF DownOK, HolderOK
<1> QED BY <1>3, <1>4, <1>5, <1>6, <1>7 DEF Carried

\* initialize() writes the header, unless the link has been dropped: the invariant is kept.
LEMMA InitializeStep ==
  ASSUME IInv, NEW k \in Call, Initialize(k), UNCHANGED server
  PROVE  IInv'
<1>1. PICK l \in Link : /\ thread[k].at = "initialize" /\ l = On(k) /\ l = thread[k].link /\ link[l] \in LinkType
                        /\ thread[k] \in ThreadType
  BY Where, Names DEF Initialize
<1>2. k \in Thread /\ ~link[l].listening /\ l \in 1 .. links
  BY <1>1, Names DEF IInv, Calling, ThreadOK
<1>3. /\ link[l].queue = <<>> /\ link[l].current = None /\ ~link[l].header_read
      /\ peer[l] = NoPeer /\ NoMessage(l) /\ Carried(l)
  BY <1>2 DEF IInv, Calling, QueueOK, Carried, PeerOK, NoMessage
<1>4. PICK r \in ThreadType : thread' = [thread EXCEPT ![k] = r] /\ r.at = "push" /\ r.link = thread[k].link
  BY <1>2, AtMoves DEF Initialize, IInv, Types, Steps, Unqueued
<1>5. \E s \in LinkType :
          /\ link' = [link EXCEPT ![l] = s] /\ s.queue = link[l].queue /\ s.current = link[l].current
          /\ s.mutex = link[l].mutex /\ s.dropped = link[l].dropped /\ s.raced = link[l].raced /\ s.listening
          /\ s.header_read = link[l].header_read
  <2>1. CASE link[l].dropped
    <3> DEFINE s == [link[l] EXCEPT !.listening = TRUE]
    <3>1. /\ s \in LinkType /\ s.queue = link[l].queue /\ s.current = link[l].current
          /\ s.mutex = link[l].mutex /\ s.dropped = link[l].dropped /\ s.raced = link[l].raced /\ s.listening
          /\ s.header_read = link[l].header_read
      BY <1>1 DEF LinkType
    <3>2. link' = [link EXCEPT ![l] = s]
      BY <1>1, <2>1 DEF Initialize
    <3> HIDE DEF s
    <3> QED BY <3>1, <3>2
  <2>2. CASE ~link[l].dropped
    <3> DEFINE s == [link[l] EXCEPT !.listening = TRUE, !.reading = "header"]
    <3>1. /\ s \in LinkType /\ s.queue = link[l].queue /\ s.current = link[l].current
          /\ s.mutex = link[l].mutex /\ s.dropped = link[l].dropped /\ s.raced = link[l].raced /\ s.listening
          /\ s.header_read = link[l].header_read
      BY <1>1 DEF LinkType
    <3>2. link' = [link EXCEPT ![l] = s]
      BY <1>1, <2>2 DEF Initialize
    <3> HIDE DEF s
    <3> QED BY <3>1, <3>2
  <2> QED BY <2>1, <2>2
<1>6. PICK s \in LinkType :
          /\ link' = [link EXCEPT ![l] = s] /\ s.queue = link[l].queue /\ s.current = link[l].current
          /\ s.mutex = link[l].mutex /\ s.dropped = link[l].dropped /\ s.raced = link[l].raced /\ s.listening
          /\ s.header_read = link[l].header_read
  BY <1>5
<1>7. /\ UNCHANGED <<regime, down, client_closed, server_closed, cut, calls, links, service_server_links_, shutting_down_>>
      /\ server_link_' = IF regime.persistent THEN l ELSE server_link_
      /\ up' = up \/ up' = [up EXCEPT ![l] = Append(@, <<"header", None>>)]
  BY <1>1 DEF Initialize
<1>8. /\ up' \in [Link -> Seq(UpType)] /\ up'[l] \in {<<>>, <<<<"header", None>>>>}
      /\ \A m \in Link : m # l => up'[m] = up[m]
  <2>1. up \in [Link -> Seq(UpType)] /\ up[l] = <<>>
    BY <1>3 DEF IInv, Types, WireTypes, NoMessage
  <2>2. <<"header", None>> \in UpType
    BY DEF UpType
  <2>3. Append(<<>>, <<"header", None>>) = <<<<"header", None>>>> /\ <<<<"header", None>>>> \in Seq(UpType)
    BY <2>2
  <2> QED BY <2>1, <2>3, <1>7
<1>9. thread'[k] = r /\ link'[l] = s
  BY <1>2, <1>4, <1>6 DEF IInv, Types, ClientTypes
<1>10. /\ ClientTypes' /\ Calling'
       /\ thread'[k] = r /\ (\A u \in Thread : u # k => thread'[u] = thread[u])
       /\ link'[l] = s /\ (\A m \in Link : m # l => link'[m] = link[m])
  <2>1. ThreadOK(k)'
    BY <1>1, <1>4, <1>6, <1>9 DEF ThreadOK, Clearing
  <2>2. /\ thread[k].at \notin {"cancel", "yield", "sweep"} /\ r.at # "initialize" /\ thread[k].at \in Unqueued
        /\ r.at \in Unqueued /\ r.at \notin Busy
    BY <1>1, <1>4 DEF Unqueued, Busy, Holding
  <2>3. /\ calls' \in [Call -> CallType] /\ links' \in 0 .. regime.links /\ links <= links' /\ links' = links
        /\ service_server_links_' \subseteq 1 .. links' /\ shutting_down_' \in BOOLEAN /\ calls' = calls
        /\ WireTypes /\ ClientTypes /\ Calling /\ UNCHANGED regime
    BY <1>7, Made DEF IInv, Types, ClientTypes
  <2>4. \A j \in Call : /\ calls'[j].finished = calls[j].finished /\ calls'[j].call_finished = calls[j].call_finished
                        /\ calls'[j].resp = calls[j].resp /\ calls'[j].result = calls[j].result
                        /\ calls'[j].late = calls[j].late
    BY <2>3
  <2>5. /\ s.header_read => link[l].header_read \/ link[l].listening
        /\ link[l].listening => s.listening
        /\ s.listening => link[l].listening \/ (thread[k].at = "initialize" /\ thread[k].link = l)
    BY <1>1, <1>3, <1>6
  <2>6. server_link_' \in {server_link_, None} \/ (server_link_' \in 1 .. links' /\ link'[server_link_'].listening)
    BY <1>2, <1>6, <1>7, <1>9
  <2>7. /\ r.at = "initialize" => r.link \notin 1 .. links
        /\ k \in Call => IF thread[k].at \in Unqueued THEN r.at \in Unqueued
                         ELSE /\ r.link = thread[k].link /\ r.at \notin Unqueued
                              /\ r.at = "returned" <=> thread[k].at = "returned"
        /\ r.at \in Busy /\ r.link \in Link /\ link[r.link].dropped /\ ~link[r.link].raced
             => thread[k].at \in Busy /\ thread[k].link = r.link
    BY <2>2
  <2>8. /\ k \in Thread /\ thread[k].at \notin {"cancel", "yield", "sweep"}
        /\ thread' = [thread EXCEPT ![k] = r] /\ link' = [link EXCEPT ![l] = s] /\ s.queue = link[l].queue
        /\ s.current = link[l].current /\ s.mutex = link[l].mutex /\ s.dropped = link[l].dropped
        /\ s.raced = link[l].raced
    BY <1>2, <1>4, <1>6, <2>2
  <2> QED BY <2>1, <2>3, <2>4, <2>5, <2>6, <2>7, <2>8, QuietCalling
<1>11. Carried(l)'
  <2>1. \A u \in Thread : ~Holds(u, l)'
    BY <1>3, <1>4, <1>10 DEF Holds, Holding, NoMessage, Back
  <2>2. UpOK(l)'
    BY <1>3, <1>8 DEF UpOK, server, NoPeer
  <2>3. ~Ready(l)
    BY <1>3 DEF Ready, NoPeer
  <2>4. \A u \in Thread : thread[u].link = l => thread[u].at \notin {"take", "write"}
    BY <1>3, <2>3 DEF Carried, WriterOK
  <2>5. \A u \in Thread : WriterOK(u, l)'
    BY <2>4, <1>4, <1>10 DEF WriterOK
  <2> QED BY <1>3, <1>6, <1>7, <1>10, <2>1, <2>2, <2>5, NoMessageMoves
<1>12. \A m \in Link : m # l => Carried(m)'
  <2>1. thread'[k].link \in {l, None} /\ UNCHANGED down /\ \A m \in Link : Carried(m)
    BY <1>1, <1>4, <1>7, <1>10 DEF IInv
  <2> QED BY <2>1, <1>2, <1>8, <1>10, OtherLinks
<1> QED BY <1>7, <1>8, <1>10, <1>11, <1>12, ClientStep DEF IInv, Types, WireTypes

\* A call is queued, or returns since the link has been dropped: the invariant is kept.
LEMMA PushStep ==
  ASSUME IInv, NEW k \in Call, Push(k), UNCHANGED server
  PROVE  IInv'
<1>1. PICK l \in Link : /\ thread[k].at = "push" /\ l = On(k) /\ l = thread[k].link /\ link[l] \in LinkType
                        /\ link[l].listening /\ link[l].mutex = None
  BY Where, Names DEF Push, Unlocked
<1>2. UNCHANGED <<wire, server_link_, links, service_server_links_, shutting_down_>>
  BY DEF Push
<1>3. CASE link[l].dropped
  <2>1. Returns(k, None) /\ UNCHANGED link
    BY <1>1, <1>3 DEF Push
  <2>2. \A m \in Link : ~Charged(k, m)
    BY <1>1, Uncharged DEF Unqueued
  <2> QED BY <1>1, <1>2, <2>1, <2>2, ReturnsMove
<1>4. CASE ~link[l].dropped
  <2>1. UNCHANGED calls
    BY <1>1, <1>4 DEF Push
  <2>2. \E r \in ThreadType : /\ thread' = [thread EXCEPT ![k] = r] /\ r.link = l
                              /\ r.at = "wait" \/ (r.at = "take" /\ link[l].header_read)
    <3>1. PICK where \in {"take", "wait"} : At(k, where) /\ (where = "take" => link[l].header_read)
      BY <1>1, <1>4 DEF Push
    <3> QED BY <3>1, <1>1, Names, AtMoves DEF IInv, Types, Steps
  <2>3. PICK r \in ThreadType : /\ thread' = [thread EXCEPT ![k] = r] /\ r.link = l
                                /\ r.at = "wait" \/ (r.at = "take" /\ link[l].header_read)
    BY <2>2
  <2>4. \E s \in LinkType :
          /\ link' = [link EXCEPT ![l] = s] /\ s.queue = Append(link[l].queue, k) /\ s.current = link[l].current
          /\ s.mutex = None /\ s.dropped = link[l].dropped /\ s.raced = link[l].raced
          /\ s.listening = link[l].listening /\ s.header_read = link[l].header_read /\ s.reading = link[l].reading
    <3> DEFINE q == Append(link[l].queue, k)
               s == [link[l] EXCEPT !.queue = q]
    <3>0. q \in Seq(Call)
      BY <1>1 DEF LinkType
    <3> HIDE DEF q
    <3>1. /\ s \in LinkType /\ s.queue = q /\ s.current = link[l].current
          /\ s.mutex = None /\ s.dropped = link[l].dropped /\ s.raced = link[l].raced
          /\ s.listening = link[l].listening /\ s.header_read = link[l].header_read /\ s.reading = link[l].reading
      BY <1>1, <3>0 DEF LinkType
    <3>2. link' = [link EXCEPT ![l] = s]
      BY <1>1, <1>4 DEF Push, q
    <3> HIDE DEF s
    <3> QED BY <3>1, <3>2 DEF q
  <2>5. PICK s \in LinkType :
          /\ link' = [link EXCEPT ![l] = s] /\ s.queue = Append(link[l].queue, k) /\ s.current = link[l].current
          /\ s.mutex = None /\ s.dropped = link[l].dropped /\ s.raced = link[l].raced
          /\ s.listening = link[l].listening /\ s.header_read = link[l].header_read /\ s.reading = link[l].reading
    BY <2>4
  <2>6. /\ k \in Thread /\ thread'[k] = r /\ (\A u \in Thread : u # k => thread'[u] = thread[u])
        /\ link'[l] = s /\ (\A m \in Link : m # l => link'[m] = link[m])
        /\ calls' = calls /\ calls' \in [Call -> CallType]
    BY <2>1, <2>3, <2>5, Names DEF IInv, Types, ClientTypes
  <2>7. ThreadOK(k)'
    <3>1. r.at \in {"wait", "take"} /\ r.link = l /\ link'[l].listening
      BY <1>1, <2>3, <2>5, <2>6
    <3> QED BY <3>1, <2>6 DEF ThreadOK, Clearing
  <2>8. r.at \notin Unqueued /\ r.at \notin Holding /\ r.at # "returned" /\ r.at # "initialize" /\ r.at # "write"
    BY <2>3 DEF Unqueued, Holding
  <2>9. ~calls[k].finished /\ CallOK(k)'
    <3>1. CallOK(k)
      BY DEF IInv, Calling
    <3>2. ~calls[k].finished /\ ~calls[k].call_finished /\ ~calls[k].late
      BY <3>1, <1>1 DEF CallOK, Unqueued
    <3> QED BY <3>1, <3>2, <2>6 DEF CallOK
  <2>10. ~Charged(k, l)
    BY <1>1, Uncharged DEF Unqueued
  <2>11. /\ link[l].queue \in Seq(Call) /\ Len(link[l].queue) \in Nat /\ Len(s.queue) = Len(link[l].queue) + 1
         /\ \A i \in DOMAIN s.queue : \/ i \in DOMAIN link[l].queue /\ s.queue[i] = link[l].queue[i]
                                      \/ i = Len(link[l].queue) + 1 /\ s.queue[i] = k
    BY <1>1, <2>5 DEF LinkType
  <2>12. \A j \in Call : Charged(j, l)' => ChargedOK(j, l)'
    <3> SUFFICES ASSUME NEW j \in Call, Charged(j, l)' PROVE ChargedOK(j, l)'
      OBVIOUS
    <3>1. CASE j = k
      BY <3>1, <2>3, <2>6, <2>8, <2>9 DEF ChargedOK
    <3>2. CASE j # k
      <4>1. Charged(j, l) /\ j \in Thread
        BY <3>2, <2>5, <2>6, <2>11, Names, ZenonT(30) DEF Charged
      <4>2. ChargedOK(j, l)
        BY <1>1, <4>1 DEF IInv, Calling
      <4> QED BY <4>1, <4>2, <3>2, <2>5, <2>6 DEF ChargedOK
    <3> QED BY <3>1, <3>2
  <2>13. QueueOK(l)'
    <3>1. QueueOK(l)
      BY DEF IInv, Calling
    <3>2. \A i \in DOMAIN link[l].queue : link[l].queue[i] # k
      BY <2>10 DEF Charged
    <3>3. \A i, j \in DOMAIN s.queue : s.queue[i] = s.queue[j] => i = j
      BY <2>11, <3>1, <3>2 DEF QueueOK
    <3>4. \A i \in DOMAIN s.queue : s.queue[i] # s.current
      BY <2>5, <2>10, <2>11, <3>1 DEF QueueOK, Charged
    <3>5. s.listening /\ s.mutex = None /\ link'[l] = s
      BY <1>1, <2>5, <2>6
    <3> QED BY <3>3, <3>4, <3>5 DEF QueueOK
  <2>14. DropOK(l)'
    <3>1. DropOK(l) /\ ~s.dropped /\ ~s.raced
      BY <1>4, <2>5 DEF IInv, Calling, DropOK
    <3> QED BY <3>1, <2>6 DEF DropOK
  <2>15. ClientTypes' /\ Calling'
    <3>1. /\ r.link \in {l, None} /\ thread[k].link = l /\ WireTypes /\ ClientTypes /\ Calling
          /\ UNCHANGED <<regime, links, server_link_, service_server_links_, shutting_down_>>
          /\ link[l].dropped => s.dropped
          /\ link[l].raced => s.raced
          /\ s.listening = link[l].listening
      BY <1>1, <1>2, <2>3, <2>5 DEF IInv, Types, wire
    <3>2. k \in Call => CallOK(k)' /\ (thread[k].at \notin Unqueued => r.link = l /\ r.at \notin Unqueued)
      BY <2>3, <2>8, <2>9
    <3>3. \A j \in Call : j = k \/ calls'[j] = calls[j] \/ (thread[j].link = l /\ CallOK(j)')
      BY <2>6
    <3>4. k \in Thread /\ thread' = [thread EXCEPT ![k] = r] /\ link' = [link EXCEPT ![l] = s] /\ r.at # "initialize"
          /\ calls' \in [Call -> CallType]
      BY <2>3, <2>5, <2>6, <2>8
    <3> QED BY <2>7, <2>12, <2>13, <2>14, <3>1, <3>2, <3>3, <3>4, CallingMove
  <2>16. Carried(l)'
    <3>1. Carried(l) /\ (link[l].header_read => Ready(l))
      BY DEF IInv, Carried
    <3>2. \A u \in Thread : thread'[u].link = l /\ thread'[u].at \in Holding \cup {"take", "write"} =>
              thread'[u] = thread[u] \/ (thread'[u].at = "take" /\ Ready(l))
      BY <2>3, <2>6, <2>8, <3>1
    <3>3. /\ up'[l] = up[l] /\ down'[l] = down[l] /\ peer'[l] = peer[l] /\ server_poll' = server_poll
          /\ callbacks' = callbacks /\ serving' = serving
      BY <1>2 DEF wire, server
    <3>4. /\ link'[l].current = link[l].current
          /\ link'[l].header_read => link[l].header_read
          /\ ~link'[l].listening => ~link[l].listening
          /\ link'[l].reading = link[l].reading
      BY <2>5, <2>6
    <3>5. \A i \in DOMAIN callbacks' : callbacks'[i].link = l => \E j \in DOMAIN callbacks : callbacks[j] = callbacks'[i]
      BY <3>3
    <3> QED BY <3>1, <3>2, <3>3, <3>4, <3>5, CarriedKept
  <2>17. \A m \in Link : m # l => Carried(m)'
    <3>1. thread'[k].link \in {l, None} /\ UNCHANGED <<up, down>> /\ \A m \in Link : Carried(m)
      BY <1>2, <2>3, <2>6 DEF wire, IInv
    <3> QED BY <3>1, <2>6, OtherLinks
  <2> QED BY <1>2, <2>15, <2>16, <2>17, ClientStep DEF wire, IInv, Types, WireTypes
<1> QED BY <1>3, <1>4

\* A link that has had its header, and has no current call, carries no message.
LEMMA Vacant ==
  ASSUME ServerTypes, NEW l \in Link, Carried(l), Ready(l), link[l].current = None
  PROVE  NoMessage(l)
<1>1. peer[l].parent # None /\ peer[l].reading # "header"
  BY DEF Ready, Carried, PeerOK
<1>2. up[l] = <<>>
  BY <1>1 DEF Carried, UpOK
<1>3. ~Polling(l)
  <2>1. server_poll.at \in {"check", "add"} \/ server_poll.at \notin {"check", "add"}
    OBVIOUS
  <2> QED BY <2>1, <1>1 DEF Carried, PeerOK
<1>4. ~Queued(l)
  <2> SUFFICES ASSUME NEW i \in DOMAIN callbacks, callbacks[i].link = l PROVE FALSE
    BY DEF Queued
  <2>1. callbacks[i].call \in Call
    <3>1. callbacks \in Seq(EntryType)
      BY DEF ServerTypes
    <3>2. callbacks[i] \in EntryType
      BY <3>1
    <3> QED BY <3>2 DEF EntryType
  <2>2. callbacks[i].call = None
    BY DEF Carried, EntryOK
  <2> QED BY <2>1, <2>2, Names
<1>5. serving.link # l
  <2> SUFFICES ASSUME serving.link = l PROVE FALSE
    OBVIOUS
  <2>1. serving.call \in Call
    BY Names DEF ServerTypes, EntryType, Nobody
  <2>2. serving.call = None
    BY DEF Carried, EntryOK
  <2> QED BY <2>1, <2>2, Names
<1>6. down[l] = <<>>
  BY <1>1 DEF Ready, Carried, DownOK
<1>7. \A t \in Thread : ~Holds(t, l)
  <2> SUFFICES ASSUME NEW t \in Thread, Holds(t, l) PROVE FALSE
    OBVIOUS
  <2>1. HolderOK(t, l) /\ thread[t].at \in Holding /\ thread[t].at # "header"
    BY DEF Carried, Holds, Ready
  <2> QED BY <2>1, <1>1 DEF HolderOK, Holding
<1> QED BY <1>2, <1>3, <1>4, <1>5, <1>6, <1>7 DEF NoMessage, AtServer, Back

\* The first call of a queue, and the others.
LEMMA HeadAndTail ==
  ASSUME NEW q \in Seq(Call), q # <<>>
  PROVE  /\ Head(q) \in Call /\ Tail(q) \in Seq(Call) /\ 1 \in DOMAIN q /\ Head(q) = q[1]
         /\ \A i \in DOMAIN Tail(q) : i + 1 \in DOMAIN q /\ Tail(q)[i] = q[i + 1] /\ i \in Nat \ {0}
<1>1. Len(q) \in Nat \ {0} /\ Head(q) = q[1] /\ Head(q) \in Call /\ Tail(q) \in Seq(Call) /\ Len(Tail(q)) = Len(q) - 1
  OBVIOUS
<1>2. 1 \in DOMAIN q
  BY <1>1
<1>3. \A i \in DOMAIN Tail(q) : i + 1 \in DOMAIN q /\ Tail(q)[i] = q[i + 1] /\ i \in Nat \ {0}
  BY <1>1
<1> QED BY <1>1, <1>2, <1>3

\* processNextCall() makes the first of the queue the current call, of which nothing is under way: the
\* invariant is kept.
LEMMA TakeStep ==
  ASSUME IInv, NEW t \in Thread, Take(t), UNCHANGED server
  PROVE  IInv'
<1>1. PICK l \in Link : /\ thread[t].at = "take" /\ l = On(t) /\ l = thread[t].link /\ link[l] \in LinkType
                        /\ link[l].listening /\ link[l].mutex = None
  BY Where DEF Take, Unlocked
<1>2. UNCHANGED <<wire, calls, server_link_, links, service_server_links_, shutting_down_>>
  BY DEF Take
<1>3. thread[t].at \notin {"returned", "cancel", "yield", "sweep"} \cup Unqueued
  BY <1>1 DEF Unqueued
<1>4. CASE At(t, "drop") /\ UNCHANGED link
  BY <1>2, <1>3, <1>4, QuietAt
<1>5. CASE Rest(t) /\ link' = [link EXCEPT ![l] = Leave(t, @)]
  <2>1. link' = [link EXCEPT ![On(t)] = Leave(t, link[l])] /\ l = On(t)
    BY <1>1, <1>5 DEF IInv, Types, ClientTypes
  <2>2. /\ UNCHANGED <<server, regime, cut, server_closed, up, down, calls, links, server_link_, shutting_down_>>
        /\ client_closed' \subseteq Link /\ service_server_links_' \subseteq service_server_links_
    BY <1>2 DEF wire, IInv, Types, WireTypes
  <2> QED BY <1>1, <1>3, <1>5, <2>1, <2>2, QuietRest
<1>6. CASE /\ link[l].current = None /\ link[l].queue # <<>>
           /\ link' = [link EXCEPT ![l].current = Head(link[l].queue), ![l].queue = Tail(@)]
           /\ At(t, "write")
  <2>1. PICK r \in ThreadType : thread' = [thread EXCEPT ![t] = r] /\ r.at = "write" /\ r.link = l
    BY <1>1, <1>6, AtMoves DEF IInv, Types, Steps
  <2>2. PICK k \in Call, q \in Seq(Call) :
          /\ k = Head(link[l].queue) /\ q = Tail(link[l].queue) /\ 1 \in DOMAIN link[l].queue /\ k = link[l].queue[1]
          /\ \A i \in DOMAIN q : i + 1 \in DOMAIN link[l].queue /\ q[i] = link[l].queue[i + 1] /\ i \in Nat \ {0}
    BY <1>1, <1>6, HeadAndTail DEF LinkType
  <2>3. \E s \in LinkType :
          /\ link' = [link EXCEPT ![l] = s] /\ s.queue = q /\ s.current = k
          /\ s.mutex = None /\ s.dropped = link[l].dropped /\ s.raced = link[l].raced
          /\ s.listening = link[l].listening /\ s.header_read = link[l].header_read /\ s.reading = link[l].reading
    <3> DEFINE s == [link[l] EXCEPT !.current = k, !.queue = q]
    <3>1. /\ s \in LinkType /\ s.queue = q /\ s.current = k
          /\ s.mutex = None /\ s.dropped = link[l].dropped /\ s.raced = link[l].raced
          /\ s.listening = link[l].listening /\ s.header_read = link[l].header_read /\ s.reading = link[l].reading
      BY <1>1 DEF LinkType
    <3>2. link' = [link EXCEPT ![l] = s]
      <4>1. link' = [link EXCEPT ![l].current = k, ![l].queue = Tail(@)]
        BY <1>6, <2>2
      <4> QED BY <4>1, <2>2, <1>1 DEF LinkType
    <3> HIDE DEF s
    <3> QED BY <3>1, <3>2
  <2>4. PICK s \in LinkType :
          /\ link' = [link EXCEPT ![l] = s] /\ s.queue = q /\ s.current = k
          /\ s.mutex = None /\ s.dropped = link[l].dropped /\ s.raced = link[l].raced
          /\ s.listening = link[l].listening /\ s.header_read = link[l].header_read /\ s.reading = link[l].reading
    BY <2>3
  <2>5. /\ thread'[t] = r /\ (\A u \in Thread : u # t => thread'[u] = thread[u])
        /\ link'[l] = s /\ (\A m \in Link : m # l => link'[m] = link[m])
        /\ calls' = calls /\ calls' \in [Call -> CallType]
    BY <1>2, <2>1, <2>4 DEF IInv, Types, ClientTypes
  <2>6. ThreadOK(t)'
    <3>1. r.at = "write" /\ r.link = l /\ link'[l].listening
      BY <1>1, <2>1, <2>4, <2>5
    <3> QED BY <3>1, <2>5 DEF ThreadOK, Clearing
  <2>7. r.at \notin Unqueued /\ r.at \notin Holding /\ r.at # "returned" /\ r.at # "initialize"
    BY <2>1 DEF Unqueued, Holding
  <2>8. t \in Call => CallOK(t)' /\ (thread[t].at \notin Unqueued => r.link = l /\ r.at \notin Unqueued)
    BY <1>1, <2>1, <2>5, <2>7, MoverOK DEF IInv
  <2>9. \A j \in Call : Charged(j, l)' => ChargedOK(j, l)'
    <3> SUFFICES ASSUME NEW j \in Call, Charged(j, l)' PROVE ChargedOK(j, l)'
      OBVIOUS
    <3>1. Charged(j, l) /\ j \in Thread
      <4>1. CASE j = k
        BY <4>1, <2>2, Names DEF Charged
      <4>2. CASE \E i \in DOMAIN q : q[i] = j
        BY <4>2, <2>2, Names DEF Charged
      <4> QED BY <4>1, <4>2, <2>4, <2>5 DEF Charged
    <3>2. ChargedOK(j, l)
      BY <1>1, <3>1 DEF IInv, Calling
    <3>3. thread'[j].link = l /\ thread'[j].at \notin Unqueued /\ (thread'[j].at = "returned" => thread[j].at = "returned")
      BY <3>1, <3>2, <2>1, <2>5, <2>7 DEF ChargedOK
    <3> QED BY <3>2, <3>3, <2>4, <2>5 DEF ChargedOK
  <2>10. QueueOK(l)'
    <3>1. \A i, j \in DOMAIN link[l].queue : link[l].queue[i] = link[l].queue[j] => i = j
      BY DEF IInv, Calling, QueueOK
    <3>2. \A i, j \in DOMAIN q : q[i] = q[j] => i = j
      <4> SUFFICES ASSUME NEW i \in DOMAIN q, NEW j \in DOMAIN q, q[i] = q[j] PROVE i = j
        OBVIOUS
      <4>1. i + 1 = j + 1
        BY <2>2, <3>1
      <4> QED BY <4>1, <2>2
    <3>3. \A i \in DOMAIN q : q[i] # k
      <4> SUFFICES ASSUME NEW i \in DOMAIN q, q[i] = k PROVE FALSE
        OBVIOUS
      <4>1. i + 1 = 1
        BY <2>2, <3>1
      <4> QED BY <4>1, <2>2
    <3>4. s.listening /\ s.mutex = None /\ link'[l] = s /\ s.queue = q /\ s.current = k
      BY <1>1, <2>4, <2>5
    <3> QED BY <3>2, <3>3, <3>4 DEF QueueOK
  <2>11. DropOK(l)'
    <3>1. DropOK(l)
      BY DEF IInv, Calling
    <3> QED BY <3>1, <1>1, <2>1, <2>4, <2>5 DEF DropOK, Holding
  <2>12. ClientTypes' /\ Calling'
    <3>1. /\ r.link \in {l, None} /\ thread[t].link = l /\ WireTypes /\ ClientTypes /\ Calling
          /\ UNCHANGED <<regime, links, server_link_, service_server_links_, shutting_down_>>
          /\ link[l].dropped => s.dropped
          /\ link[l].raced => s.raced
          /\ s.listening = link[l].listening
      BY <1>1, <1>2, <2>1, <2>4 DEF IInv, Types, wire
    <3>2. \A j \in Call : j = t \/ calls'[j] = calls[j] \/ (thread[j].link = l /\ CallOK(j)')
      BY <2>5
    <3>3. thread' = [thread EXCEPT ![t] = r] /\ link' = [link EXCEPT ![l] = s] /\ r.at # "initialize"
          /\ calls' \in [Call -> CallType]
      BY <2>1, <2>4, <2>5, <2>7
    <3> QED BY <2>6, <2>8, <2>9, <2>10, <2>11, <3>1, <3>2, <3>3, CallingMove
  <2>13. Carried(l)'
    <3>1. Carried(l) /\ Ready(l)
      BY <1>1 DEF IInv, Carried, WriterOK
    <3>2. NoMessage(l) /\ \A u \in Thread : thread[u].link = l => thread[u].at # "write"
      BY <3>1, <1>6, Vacant DEF IInv, Types, Carried, WriterOK
    <3>3. /\ up'[l] = <<>> /\ down'[l] = down[l] /\ peer'[l] = peer[l] /\ server_poll' = server_poll
          /\ callbacks' = callbacks /\ serving' = serving
      BY <1>2, <3>2 DEF wire, server, NoMessage
    <3>4. \A u \in Thread : ~Holds(u, l)'
      BY <2>5, <2>7, <3>2 DEF Holds, NoMessage, Back
    <3>5. Ready(l)'
      BY <3>1, <3>3, <2>1, <2>5 DEF Ready
    <3>6. ~Polling(l)' /\ ~AtServer(l)' /\ ~Back(l)'
      BY <3>2, <3>3, <3>4 DEF NoMessage, Polling, AtServer, Queued, Back
    <3>7. \A u \in Thread : WriterOK(u, l)'
      BY <3>2, <3>3, <3>5, <3>6, <2>1, <2>4, <2>5, Names DEF WriterOK
    <3>8. UpOK(l)' /\ link'[l].listening
      BY <3>3, <1>1, <2>4, <2>5 DEF UpOK
    <3> QED BY <3>1, <3>2, <3>3, <3>4, <3>5, <3>7, <3>8, NoMessageMoves
  <2>14. \A m \in Link : m # l => Carried(m)'
    <3>1. thread'[t].link \in {l, None} /\ UNCHANGED <<up, down>> /\ \A m \in Link : Carried(m)
      BY <1>2, <2>1, <2>5 DEF wire, IInv
    <3> QED BY <3>1, <2>5, OtherLinks
  <2> QED BY <1>2, <2>12, <2>13, <2>14, ClientStep DEF wire, IInv, Types, WireTypes
<1> QED BY <1>1, <1>4, <1>5, <1>6 DEF Take

\* processNextCall() writes the request, and no other message is under way: the invariant is kept.
LEMMA WriteStep ==
  ASSUME IInv, NEW t \in Thread, Write(t), UNCHANGED server
  PROVE  IInv'
<1>1. PICK l \in Link : /\ thread[t].at = "write" /\ l = On(t) /\ l = thread[t].link /\ link[l] \in LinkType
                        /\ link[l].listening /\ thread[t] \in ThreadType
  BY Where DEF Write
<1>2. Carried(l) /\ WriterOK(t, l)
  BY DEF IInv, Carried
<1>3. PICK k \in Call : k = link[l].current
  BY <1>1, <1>2 DEF WriterOK, LinkType
<1>4. NoMessage(l) /\ Ready(l) /\ \A u \in Thread : thread[u].link = l /\ thread[u].at = "write" => u = t
  BY <1>1, <1>2 DEF WriterOK, NoMessage
<1> DEFINE read == [link[l] EXCEPT !.header_read = TRUE]
           asked == [read EXCEPT !.reading = "response"]
           here == [asked EXCEPT !.reader = t]
<1>5. \A q \in {read, asked, here} :
          /\ q \in LinkType /\ q.queue = link[l].queue /\ q.current = k /\ q.mutex = link[l].mutex
          /\ q.dropped = link[l].dropped /\ q.raced = link[l].raced /\ q.listening /\ q.header_read
  <2>1. /\ read \in LinkType /\ read.queue = link[l].queue /\ read.current = k /\ read.mutex = link[l].mutex
        /\ read.dropped = link[l].dropped /\ read.raced = link[l].raced /\ read.listening /\ read.header_read
    BY <1>1, <1>3 DEF LinkType
  <2> HIDE DEF read
  <2>2. /\ asked \in LinkType /\ asked.queue = link[l].queue /\ asked.current = k /\ asked.mutex = link[l].mutex
        /\ asked.dropped = link[l].dropped /\ asked.raced = link[l].raced /\ asked.listening /\ asked.header_read
    BY <2>1 DEF LinkType
  <2> HIDE DEF asked
  <2>3. /\ here \in LinkType /\ here.queue = link[l].queue /\ here.current = k /\ here.mutex = link[l].mutex
        /\ here.dropped = link[l].dropped /\ here.raced = link[l].raced /\ here.listening /\ here.header_read
    BY <2>2 DEF LinkType
  <2> HIDE DEF here
  <2> QED BY <2>1, <2>2, <2>3
<1>6. \E r \in ThreadType :
          /\ thread' = [thread EXCEPT ![t] = r]
          /\ (r = Idle /\ t \notin Call) \/ (t \in Call /\ r.at \in {"read", "wait"} /\ r.link = l)
  <2>1. CASE Rest(t)
    <3>1. PICK r \in ThreadType :
              /\ thread' = [thread EXCEPT ![t] = r]
              /\ IF t \in Call THEN r.at \in {"read", "wait"} /\ r.link = thread[t].link /\ r.call = None ELSE r = Idle
      BY <2>1, <1>1, Resting DEF IInv, Types
    <3> QED BY <3>1, <1>1
  <2>2. CASE t \in Call /\ At(t, "read")
    <3>1. PICK r \in ThreadType : thread' = [thread EXCEPT ![t] = r] /\ r.at = "read" /\ r.link = thread[t].link
      BY <2>2, AtMoves DEF IInv, Types, Steps
    <3> QED BY <3>1, <2>2, <1>1
  <2> QED BY <2>1, <2>2 DEF Write
<1>7. PICK r \in ThreadType :
          /\ thread' = [thread EXCEPT ![t] = r]
          /\ (r = Idle /\ t \notin Call) \/ (t \in Call /\ r.at \in {"read", "wait"} /\ r.link = l)
  BY <1>6
<1>8. \E q \in {read, asked, here} : link' = [link EXCEPT ![l] = q] \/ link' = [link EXCEPT ![l] = Leave(t, q)]
  BY <1>1 DEF Write
<1>9. \E s \in LinkType :
          /\ link' = [link EXCEPT ![l] = s]
          /\ s.queue = link[l].queue /\ s.current = k /\ s.mutex = link[l].mutex
          /\ s.dropped = link[l].dropped /\ s.raced = link[l].raced /\ s.listening /\ s.header_read
  <2> HIDE DEF read, asked, here
  <2>1. PICK q \in {read, asked, here} : link' = [link EXCEPT ![l] = q] \/ link' = [link EXCEPT ![l] = Leave(t, q)]
    BY <1>8
  <2>2. /\ q \in LinkType /\ q.queue = link[l].queue /\ q.current = k /\ q.mutex = link[l].mutex
        /\ q.dropped = link[l].dropped /\ q.raced = link[l].raced /\ q.listening /\ q.header_read
    BY <1>5
  <2>3. /\ Leave(t, q) \in LinkType /\ Leave(t, q).queue = link[l].queue /\ Leave(t, q).current = k
        /\ Leave(t, q).mutex = link[l].mutex /\ Leave(t, q).dropped = link[l].dropped
        /\ Leave(t, q).raced = link[l].raced /\ Leave(t, q).listening /\ Leave(t, q).header_read
    BY <2>2, Leaving
  <2> QED BY <2>1, <2>2, <2>3
<1>10. PICK s \in LinkType :
          /\ link' = [link EXCEPT ![l] = s]
          /\ s.queue = link[l].queue /\ s.current = k /\ s.mutex = link[l].mutex
          /\ s.dropped = link[l].dropped /\ s.raced = link[l].raced /\ s.listening /\ s.header_read
  BY <1>9
<1> HIDE DEF read, asked, here
<1>11. /\ UNCHANGED <<regime, down, client_closed, server_closed, cut, calls, server_link_, links, service_server_links_,
                      shutting_down_>>
       /\ up' = up \/ up' = [up EXCEPT ![l] = Append(@, <<"request", k>>)]
  BY <1>1, <1>3 DEF Write, RequestOf
<1>12. /\ up' \in [Link -> Seq(UpType)] /\ up'[l] \in {<<>>, <<<<"request", k>>>>}
       /\ \A m \in Link : m # l => up'[m] = up[m]
  <2>1. up \in [Link -> Seq(UpType)] /\ up[l] = <<>>
    BY <1>4 DEF IInv, Types, WireTypes, NoMessage
  <2>2. <<"request", k>> \in UpType
    BY DEF UpType
  <2>3. Append(<<>>, <<"request", k>>) = <<<<"request", k>>>> /\ <<<<"request", k>>>> \in Seq(UpType)
    BY <2>2
  <2> QED BY <2>1, <2>3, <1>11
<1>13. thread'[t] = r /\ link'[l] = s
  BY <1>7, <1>10 DEF IInv, Types, ClientTypes
<1>14. /\ ClientTypes' /\ Calling'
       /\ thread'[t] = r /\ (\A u \in Thread : u # t => thread'[u] = thread[u])
       /\ link'[l] = s /\ (\A m \in Link : m # l => link'[m] = link[m])
  <2>1. ThreadOK(t)'
    <3>1. CASE r = Idle /\ t \notin Call
      BY <3>1, <1>13 DEF ThreadOK, Idle, Clearing
    <3>2. CASE t \in Call /\ r.at \in {"read", "wait"} /\ r.link = l
      BY <3>2, <1>10, <1>13 DEF ThreadOK, Clearing
    <3> QED BY <3>1, <3>2, <1>7
  <2>2. /\ r.at = "initialize" => r.link \notin 1 .. links
        /\ t \in Call => IF thread[t].at \in Unqueued THEN r.at \in Unqueued
                         ELSE /\ r.link = thread[t].link /\ r.at \notin Unqueued
                              /\ r.at = "returned" <=> thread[t].at = "returned"
        /\ r.at \in Busy /\ r.link \in Link /\ link[r.link].dropped /\ ~link[r.link].raced
             => thread[t].at \in Busy /\ thread[t].link = r.link
    BY <1>1, <1>7 DEF Unqueued, Busy, Holding, Idle
  <2>3. /\ calls' \in [Call -> CallType] /\ links' \in 0 .. regime.links /\ links <= links' /\ links' = links
        /\ service_server_links_' \subseteq 1 .. links' /\ shutting_down_' \in BOOLEAN /\ calls' = calls
        /\ WireTypes /\ ClientTypes /\ Calling /\ UNCHANGED regime
    BY <1>11, Made DEF IInv, Types, ClientTypes
  <2>4. \A j \in Call : /\ calls'[j].finished = calls[j].finished /\ calls'[j].call_finished = calls[j].call_finished
                        /\ calls'[j].resp = calls[j].resp /\ calls'[j].result = calls[j].result
                        /\ calls'[j].late = calls[j].late
    BY <2>3
  <2>5. /\ s.header_read => link[l].header_read \/ link[l].listening
        /\ link[l].listening => s.listening
        /\ s.listening => link[l].listening \/ (thread[t].at = "initialize" /\ thread[t].link = l)
        /\ server_link_' \in {server_link_, None} \/ (server_link_' \in 1 .. links' /\ link'[server_link_'].listening)
    BY <1>1, <1>10, <1>11
  <2>6. /\ thread[t].at \notin {"cancel", "yield", "sweep"}
        /\ thread' = [thread EXCEPT ![t] = r] /\ link' = [link EXCEPT ![l] = s] /\ s.queue = link[l].queue
        /\ s.current = link[l].current /\ s.mutex = link[l].mutex /\ s.dropped = link[l].dropped
        /\ s.raced = link[l].raced
    BY <1>1, <1>3, <1>7, <1>10
  <2> QED BY <2>1, <2>2, <2>3, <2>4, <2>5, <2>6, QuietCalling
<1>15. Carried(l)'
  <2>1. r.at \notin Holding \cup {"take", "write"}
    BY <1>7 DEF Holding, Idle
  <2>2. \A u \in Thread : ~Holds(u, l)'
    BY <2>1, <1>4, <1>14 DEF Holds, NoMessage, Back
  <2>3. UpOK(l)'
    BY <1>10, <1>12, <1>14, Names DEF UpOK
  <2>4. Ready(l)'
    BY <2>1, <1>4, <1>11, <1>14 DEF Ready, server, Holding
  <2>5. \A u \in Thread : WriterOK(u, l)'
    BY <2>1, <2>4, <1>4, <1>14 DEF WriterOK
  <2> QED BY <1>2, <1>4, <1>10, <1>11, <1>14, <2>2, <2>3, <2>4, <2>5, NoMessageMoves
<1>16. \A m \in Link : m # l => Carried(m)'
  <2>1. thread'[t].link \in {l, None} /\ UNCHANGED down /\ \A m \in Link : Carried(m)
    BY <1>7, <1>11, <1>14 DEF IInv, Idle
  <2> QED BY <2>1, <1>12, <1>14, OtherLinks
<1> QED BY <1>11, <1>12, <1>14, <1>15, <1>16, ClientStep DEF IInv, Types, WireTypes

\* Connection::drop() overtakes those who are between two sections of a call, or nobody: the invariant is kept.
LEMMA DropStep ==
  ASSUME IInv, NEW t \in Thread, Drop(t), UNCHANGED server
  PROVE  IInv'
<1>1. PICK l \in Link : /\ thread[t].at = "drop" /\ l = On(t) /\ l = thread[t].link /\ link[l] \in LinkType
                        /\ (t \in Call => link[l].listening) /\ thread[t] \in ThreadType
  BY Where DEF Drop
<1>2. /\ UNCHANGED <<regime, up, down, server_closed, cut, calls, server_link_, links, service_server_links_, shutting_down_>>
      /\ client_closed' \subseteq Link
  BY <1>1 DEF Drop, IInv, Types, WireTypes
<1>3. CASE link[l].dropped
  <2>1. link' = [link EXCEPT ![On(t)] = Leave(t, link[l])] /\ l = On(t) /\ Rest(t)
    BY <1>1, <1>3 DEF Drop, IInv, Types, ClientTypes
  <2>2. service_server_links_' \subseteq service_server_links_
    BY <1>2
  <2>3. thread[t].at \notin {"returned", "cancel", "yield", "sweep"} \cup Unqueued
    BY <1>1 DEF Unqueued
  <2> QED BY <1>1, <1>2, <2>1, <2>2, <2>3, QuietRest
<1>4. CASE ~link[l].dropped
  <2>1. /\ QueueOK(l) /\ DropOK(l) /\ ~link[l].raced /\ \A u \in Thread : ThreadOK(u)
    BY <1>4 DEF IInv, Calling, DropOK
  <2>2. \E r \in ThreadType, s \in LinkType :
          /\ thread' = [thread EXCEPT ![t] = r]
          /\ (r = Idle /\ t \notin Call) \/ (r.at = "clear" /\ r.link = l /\ link[l].listening)
          /\ link' = [link EXCEPT ![l] = s] /\ s.queue = link[l].queue /\ s.current = link[l].current
          /\ s.mutex = link[l].mutex /\ s.dropped
          /\ ~s.raced => \A u \in Thread : u # t /\ thread[u].link = l => thread[u].at \notin Busy
          /\ s.listening = link[l].listening /\ s.header_read = link[l].header_read /\ s.reading = link[l].reading
    <3>1. CASE link[l].listening
      <4>1. PICK raced \in BOOLEAN : raced = Underway(l, t)
        BY DEF Underway
      <4> DEFINE s == [link[l] EXCEPT !.dropped = TRUE, !.raced = raced]
      <4>2. /\ s \in LinkType /\ s.queue = link[l].queue /\ s.current = link[l].current
            /\ s.mutex = link[l].mutex /\ s.dropped /\ s.raced = raced
            /\ s.listening = link[l].listening /\ s.header_read = link[l].header_read /\ s.reading = link[l].reading
        BY <1>1 DEF LinkType
      <4>3. link' = [link EXCEPT ![l] = s] /\ At(t, "clear")
        BY <1>1, <1>4, <3>1, <4>1 DEF Drop
      <4> HIDE DEF s
      <4>4. ~s.raced => \A u \in Thread : u # t /\ thread[u].link = l => thread[u].at \notin Busy
        BY <4>1, <4>2 DEF Underway, On, Busy, Holding
      <4>5. PICK r \in ThreadType : thread' = [thread EXCEPT ![t] = r] /\ r.at = "clear" /\ r.link = thread[t].link
        BY <4>3, AtMoves DEF IInv, Types, Steps, Clearing
      <4> QED BY <1>1, <3>1, <4>2, <4>3, <4>4, <4>5
    <3>2. CASE ~link[l].listening
      <4> DEFINE q == [link[l] EXCEPT !.dropped = TRUE]
                 s == Leave(t, q)
      <4>1. /\ q \in LinkType /\ q.queue = link[l].queue /\ q.current = link[l].current
            /\ q.mutex = link[l].mutex /\ q.dropped
            /\ q.listening = link[l].listening /\ q.header_read = link[l].header_read /\ q.reading = link[l].reading
        BY <1>1 DEF LinkType
      <4>2. link' = [link EXCEPT ![l] = s] /\ Rest(t)
        BY <1>1, <1>4, <3>2 DEF Drop, IInv, Types, ClientTypes
      <4> HIDE DEF q
      <4>3. /\ s \in LinkType /\ s.queue = link[l].queue /\ s.current = link[l].current
            /\ s.mutex = link[l].mutex /\ s.dropped
            /\ s.listening = link[l].listening /\ s.header_read = link[l].header_read /\ s.reading = link[l].reading
        BY <4>1, Leaving
      <4> HIDE DEF s
      <4>4. \A u \in Thread : thread[u].link = l => thread[u].at \notin Busy
        BY <2>1, <3>2 DEF ThreadOK, Busy, Holding
      <4>5. PICK r \in ThreadType :
                /\ thread' = [thread EXCEPT ![t] = r]
                /\ IF t \in Call THEN r.at \in {"read", "wait"} /\ r.link = thread[t].link /\ r.call = None ELSE r = Idle
        BY <4>2, <1>1, Resting DEF IInv, Types
      <4> QED BY <1>1, <3>2, <4>2, <4>3, <4>4, <4>5
    <3> QED BY <3>1, <3>2
  <2>3. PICK r \in ThreadType, s \in LinkType :
          /\ thread' = [thread EXCEPT ![t] = r]
          /\ (r = Idle /\ t \notin Call) \/ (r.at = "clear" /\ r.link = l /\ link[l].listening)
          /\ link' = [link EXCEPT ![l] = s] /\ s.queue = link[l].queue /\ s.current = link[l].current
          /\ s.mutex = link[l].mutex /\ s.dropped
          /\ ~s.raced => \A u \in Thread : u # t /\ thread[u].link = l => thread[u].at \notin Busy
          /\ s.listening = link[l].listening /\ s.header_read = link[l].header_read /\ s.reading = link[l].reading
    BY <2>2
  <2>4. /\ thread'[t] = r /\ (\A u \in Thread : u # t => thread'[u] = thread[u])
        /\ link'[l] = s /\ (\A m \in Link : m # l => link'[m] = link[m])
        /\ calls' = calls /\ calls' \in [Call -> CallType]
    BY <1>2, <2>3 DEF IInv, Types, ClientTypes
  <2>5. /\ r.at \notin Holding \cup {"take", "write"} /\ r.at \notin Busy /\ r.at # "returned" /\ r.at # "initialize"
        /\ r.link \in {l, None} /\ (t \in Call => r.link = l /\ r.at \notin Unqueued)
    BY <2>3 DEF Holding, Busy, Unqueued, Idle
  <2>6. ThreadOK(t)'
    <3>1. CASE r = Idle
      BY <3>1, <2>4 DEF ThreadOK, Idle, Clearing
    <3>2. CASE r.at = "clear" /\ r.link = l /\ link[l].listening
      BY <3>2, <2>3, <2>4 DEF ThreadOK
    <3> QED BY <3>1, <3>2, <2>3
  <2>7. t \in Call => CallOK(t)' /\ (thread[t].at \notin Unqueued => r.link = l /\ r.at \notin Unqueued)
    BY <1>1, <2>4, <2>5, MoverOK DEF IInv
  <2>8. \A j \in Call : Charged(j, l)' => ChargedOK(j, l)'
    <3> SUFFICES ASSUME NEW j \in Call, Charged(j, l)' PROVE ChargedOK(j, l)'
      OBVIOUS
    <3>1. Charged(j, l) /\ j \in Thread
      BY <2>3, <2>4, Names DEF Charged
    <3>2. ChargedOK(j, l)
      BY <1>1, <3>1 DEF IInv, Calling
    <3>3. thread'[j].link = l /\ thread'[j].at \notin Unqueued /\ (thread'[j].at = "returned" => thread[j].at = "returned")
      BY <3>1, <3>2, <2>4, <2>5 DEF ChargedOK
    <3> QED BY <3>2, <3>3, <2>3, <2>4 DEF ChargedOK
  <2>9. QueueOK(l)'
    <3>1. link[l].mutex # None => link[l].mutex \in Thread /\ link[l].mutex # t
      BY <2>1, <1>1 DEF QueueOK, LinkType
    <3> QED BY <3>1, <2>1, <2>3, <2>4 DEF QueueOK
  <2>10. DropOK(l)'
    BY <2>3, <2>4, <2>5 DEF DropOK, Busy
  <2>11. ClientTypes' /\ Calling'
    <3>1. /\ thread[t].link = l /\ WireTypes /\ ClientTypes /\ Calling
          /\ UNCHANGED <<regime, links, server_link_, service_server_links_, shutting_down_>>
          /\ link[l].dropped => s.dropped
          /\ link[l].raced => s.raced
          /\ s.listening = link[l].listening
      BY <1>1, <1>2, <2>1, <2>3 DEF IInv, Types
    <3>2. \A j \in Call : j = t \/ calls'[j] = calls[j] \/ (thread[j].link = l /\ CallOK(j)')
      BY <2>4
    <3>3. thread' = [thread EXCEPT ![t] = r] /\ link' = [link EXCEPT ![l] = s] /\ r.at # "initialize"
          /\ calls' \in [Call -> CallType] /\ r.link \in {l, None}
      BY <2>3, <2>4, <2>5
    <3> QED BY <2>6, <2>7, <2>8, <2>9, <2>10, <3>1, <3>2, <3>3, CallingMove
  <2>12. \A m \in Link : Carried(m)'
    <3>1. UNCHANGED <<server, up, down>> /\ \A m \in Link : Carried(m)
      BY <1>2 DEF IInv
    <3>2. \A m \in Link : /\ link'[m].current = link[m].current
                          /\ link'[m].header_read => link[m].header_read
                          /\ link[m].listening => link'[m].listening
                          /\ link'[m].reading = link[m].reading
      BY <2>3, <2>4
    <3>3. \A u \in Thread : thread'[u].at \in Holding \cup {"take", "write"} => thread'[u] = thread[u]
      BY <2>4, <2>5
    <3> QED BY <3>1, <3>2, <3>3, NoneMoved
  <2>13. up' \in [Link -> Seq(UpType)] /\ down' \in [Link -> Seq(DownType)]
    BY <1>2 DEF IInv, Types, WireTypes
  <2> QED BY <1>2, <2>11, <2>12, <2>13, ClientStep
<1> QED BY <1>3, <1>4

\* cancelCall() notifies the caller of a link that is dropped: the invariant is kept.
LEMMA CancelStep ==
  ASSUME IInv, NEW t \in Thread, Cancel(t), UNCHANGED server
  PROVE  IInv'
<1>1. PICK l \in Link : /\ thread[t].at = "cancel" /\ l = On(t) /\ l = thread[t].link /\ link[l] \in LinkType
                        /\ link[l].listening /\ thread[t] \in ThreadType
  BY Where DEF Cancel
<1>2. /\ ThreadOK(t) /\ QueueOK(l) /\ DropOK(l) /\ link[l].dropped
  BY <1>1 DEF IInv, Calling, ThreadOK, Clearing
<1>3. PICK k \in Call : k = thread[t].call /\ thread[k].link = l /\ thread[k].at \notin Unqueued
  BY <1>1, <1>2 DEF ThreadOK
<1>4. PICK r \in ThreadType : /\ thread' = [thread EXCEPT ![t] = r] /\ r.at = "yield" /\ r.link = l /\ r.call = k
  BY <1>1, <1>3, AtMoves DEF Cancel, IInv, Types, Steps, Clearing
<1>5. \E c \in CallType :
          /\ calls' = [calls EXCEPT ![k] = c] /\ c.finished
          /\ c.call_finished = calls[k].call_finished /\ c.result = calls[k].result
          /\ c.resp = calls[k].resp /\ c.late = calls[k].late
  <2> DEFINE c == [calls[k] EXCEPT !.finished = TRUE]
  <2>1. /\ c \in CallType /\ c.finished /\ c.call_finished = calls[k].call_finished /\ c.result = calls[k].result
        /\ c.resp = calls[k].resp /\ c.late = calls[k].late
    BY DEF CallType, IInv, Types, ClientTypes
  <2>2. calls' = [calls EXCEPT ![k] = c]
    BY <1>3 DEF Cancel
  <2> HIDE DEF c
  <2> QED BY <2>1, <2>2
<1>6. PICK c \in CallType :
          /\ calls' = [calls EXCEPT ![k] = c] /\ c.finished
          /\ c.call_finished = calls[k].call_finished /\ c.result = calls[k].result
          /\ c.resp = calls[k].resp /\ c.late = calls[k].late
  BY <1>5
<1>7. UNCHANGED <<wire, link, server_link_, links, service_server_links_, shutting_down_>>
  BY DEF Cancel
<1>8. /\ thread'[t] = r /\ (\A u \in Thread : u # t => thread'[u] = thread[u])
      /\ calls'[k] = c /\ (\A j \in Call : j # k => calls'[j] = calls[j]) /\ calls' \in [Call -> CallType]
      /\ link' = link /\ link' = [link EXCEPT ![l] = link[l]] /\ k \in Thread
  BY <1>4, <1>6, <1>7, SameLink, Names DEF IInv, Types, ClientTypes
<1>9. r.at \notin Holding \cup {"take", "write"} /\ r.at \notin Busy /\ r.at # "returned" /\ r.at # "initialize"
      /\ r.at \notin Unqueued
  BY <1>4 DEF Holding, Busy, Unqueued
<1>10. ThreadOK(t)'
  <2>1. thread'[k].link = l /\ thread'[k].at \notin Unqueued
    BY <1>3, <1>4, <1>8, <1>9
  <2> QED BY <1>1, <1>2, <1>4, <1>8, <2>1 DEF ThreadOK
<1>11. CallOK(k)'
  <2>1. CallOK(k)
    BY DEF IInv, Calling
  <2>2. thread'[k].link = l /\ thread'[k].at \notin Unqueued /\ (thread[k].at = "returned" => thread'[k].at = "returned")
    BY <1>1, <1>3, <1>4, <1>8, <1>9
  <2> QED BY <2>1, <2>2, <1>3, <1>6, <1>8 DEF CallOK
<1>12. t \in Call => CallOK(t)' /\ (thread[t].at \notin Unqueued => r.link = l /\ r.at \notin Unqueued)
  <2>1. t \in Call /\ t # k => CallOK(t)'
    BY <1>1, <1>8, <1>9, MoverOK DEF IInv
  <2> QED BY <2>1, <1>4, <1>9, <1>11
<1>13. \A j \in Call : Charged(j, l)' => ChargedOK(j, l)'
  <2> SUFFICES ASSUME NEW j \in Call, Charged(j, l)' PROVE ChargedOK(j, l)'
    OBVIOUS
  <2>1. Charged(j, l) /\ j \in Thread
    BY <1>8, Names DEF Charged
  <2>2. ChargedOK(j, l)
    BY <1>1, <2>1 DEF IInv, Calling
  <2>3. thread'[j].link = l /\ thread'[j].at \notin Unqueued /\ (thread'[j].at = "returned" => thread[j].at = "returned")
    BY <2>1, <2>2, <1>4, <1>8, <1>9 DEF ChargedOK
  <2>4. calls[j].finished => calls'[j].finished
    BY <1>6, <1>8
  <2> QED BY <2>2, <2>3, <2>4, <1>2, <1>8 DEF ChargedOK
<1>14. QueueOK(l)'
  BY <1>1, <1>2, <1>4, <1>8, SMTT(30) DEF QueueOK
<1>15. DropOK(l)'
  BY <1>2, <1>8, <1>9 DEF DropOK, Busy
<1>16. ClientTypes' /\ Calling'
  <2>1. /\ thread[t].link = l /\ WireTypes /\ ClientTypes /\ Calling /\ r.link \in {l, None}
        /\ UNCHANGED <<regime, links, server_link_, service_server_links_, shutting_down_>>
    BY <1>1, <1>4, <1>7 DEF IInv, Types, wire
  <2>2. \A j \in Call : j = t \/ calls'[j] = calls[j] \/ (thread[j].link = l /\ CallOK(j)')
    BY <1>3, <1>8, <1>11
  <2> QED BY <1>1, <1>4, <1>8, <1>9, <1>10, <1>12, <1>13, <1>14, <1>15, <2>1, <2>2, CallingMove
<1>17. \A m \in Link : Carried(m)'
  <2>1. UNCHANGED <<server, up, down>> /\ \A m \in Link : Carried(m)
    BY <1>7 DEF IInv, wire
  <2>2. \A u \in Thread : thread'[u].at \in Holding \cup {"take", "write"} => thread'[u] = thread[u]
    BY <1>8, <1>9
  <2> QED BY <2>1, <2>2, <1>8, NoneMoved
<1> QED BY <1>7, <1>16, <1>17, ClientStep DEF wire, IInv, Types, WireTypes

\* A thread that clears its link goes on, and takes calls off the queue at most.
LEMMA ClearMoves ==
  ASSUME IInv, UNCHANGED <<server, wire, calls, server_link_, links, service_server_links_, shutting_down_>>,
         NEW t \in Thread, NEW l \in Link, thread[t].link = l, thread[t].at \in Clearing, thread[t].at # "cancel",
         NEW r \in ThreadType, thread' = [thread EXCEPT ![t] = r], r.link = l, r.at \in Clearing,
         NEW s \in LinkType, link' = [link EXCEPT ![l] = s], s.current = link[l].current,
         s.dropped = link[l].dropped, s.raced = link[l].raced, s.listening = link[l].listening,
         s.header_read = link[l].header_read, s.reading = link[l].reading,
         \A k \in Call : Charged(k, l)' => Charged(k, l),
         ThreadOK(t)', QueueOK(l)'
  PROVE  IInv'
<1>1. /\ thread'[t] = r /\ (\A u \in Thread : u # t => thread'[u] = thread[u])
      /\ link'[l] = s /\ (\A m \in Link : m # l => link'[m] = link[m])
      /\ calls' = calls /\ calls' \in [Call -> CallType]
  BY DEF IInv, Types, ClientTypes
<1>2. r.at \notin Holding \cup {"take", "write"} /\ r.at \notin Busy /\ r.at # "returned" /\ r.at # "initialize"
      /\ r.at \notin Unqueued /\ thread[t].at # "returned"
  BY DEF Holding, Busy, Unqueued, Clearing
<1>3. t \in Call => CallOK(t)' /\ (thread[t].at \notin Unqueued => r.link = l /\ r.at \notin Unqueued)
  BY <1>1, <1>2, MoverOK DEF IInv
<1>4. \A j \in Call : Charged(j, l)' => ChargedOK(j, l)'
  <2> SUFFICES ASSUME NEW j \in Call, Charged(j, l)' PROVE ChargedOK(j, l)'
    OBVIOUS
  <2>1. Charged(j, l) /\ j \in Thread
    BY Names
  <2>2. ChargedOK(j, l)
    BY <2>1 DEF IInv, Calling
  <2>3. thread'[j].link = l /\ thread'[j].at \notin Unqueued /\ (thread'[j].at = "returned" => thread[j].at = "returned")
    BY <2>1, <2>2, <1>1, <1>2 DEF ChargedOK
  <2> QED BY <2>2, <2>3, <1>1 DEF ChargedOK
<1>5. DropOK(l)'
  <2>1. DropOK(l)
    BY DEF IInv, Calling
  <2> QED BY <2>1, <1>1, <1>2 DEF DropOK, Busy
<1>6. ClientTypes' /\ Calling'
  <2>1. /\ WireTypes /\ ClientTypes /\ Calling /\ r.link \in {l, None}
        /\ UNCHANGED <<regime, links, server_link_, service_server_links_, shutting_down_>>
        /\ link[l].dropped => s.dropped
        /\ link[l].raced => s.raced
    BY DEF IInv, Types, wire
  <2>2. \A j \in Call : j = t \/ calls'[j] = calls[j] \/ (thread[j].link = l /\ CallOK(j)')
    BY <1>1
  <2> QED BY <1>1, <1>2, <1>3, <1>4, <1>5, <2>1, <2>2, CallingMove
<1>7. \A m \in Link : Carried(m)'
  <2>1. UNCHANGED <<server, up, down>> /\ \A m \in Link : Carried(m)
    BY DEF IInv, wire
  <2>2. \A u \in Thread : thread'[u].at \in Holding \cup {"take", "write"} => thread'[u] = thread[u]
    BY <1>1, <1>2
  <2>3. \A m \in Link : /\ link'[m].current = link[m].current
                        /\ link'[m].header_read => link[m].header_read
                        /\ link[m].listening => link'[m].listening
                        /\ link'[m].reading = link[m].reading
    BY <1>1
  <2> QED BY <2>1, <2>2, <2>3, NoneMoved
<1> QED BY <1>6, <1>7, ClientStep DEF wire, IInv, Types, WireTypes

\* The caller has left call(), and its call the queue: the invariant is kept.
LEMMA CancelledStep ==
  ASSUME IInv, NEW t \in Thread, Cancelled(t), UNCHANGED server
  PROVE  IInv'
<1>1. PICK l \in Link : /\ thread[t].at = "yield" /\ l = On(t) /\ l = thread[t].link /\ link[l] \in LinkType
                        /\ link[l].listening /\ thread[t] \in ThreadType
  BY Where DEF Cancelled
<1>2. /\ ThreadOK(t) /\ QueueOK(l) /\ link[l].dropped
  BY <1>1 DEF IInv, Calling, ThreadOK, Clearing
<1>3. PICK r \in ThreadType : /\ thread' = [thread EXCEPT ![t] = r] /\ r.at = "sweep" /\ r.link = l
  BY <1>1, AtMoves DEF Cancelled, IInv, Types, Steps, Clearing
<1>4. UNCHANGED <<server, wire, calls, server_link_, links, service_server_links_, shutting_down_>>
      /\ thread[t].at \in Clearing /\ thread[t].at # "cancel" /\ r.at \in Clearing
  BY <1>1, <1>3 DEF Cancelled, Clearing
<1>5. thread'[t] = r /\ (\A u \in Thread : u # t => thread'[u] = thread[u])
  BY <1>3 DEF IInv, Types, ClientTypes
<1>6. CASE link[l].mutex # t /\ UNCHANGED link
  <2>1. link' = [link EXCEPT ![l] = link[l]] /\ link'[l] = link[l] /\ \A k \in Call : Charged(k, l)' => Charged(k, l)
    BY <1>6, SameLink DEF IInv, Types, Charged
  <2>2. ThreadOK(t)'
    BY <1>1, <1>2, <1>3, <1>5, <1>6 DEF ThreadOK
  <2>3. QueueOK(l)'
    <3>1. link[l].mutex # None => link[l].mutex \in Thread /\ link[l].mutex # t
      BY <1>1, <1>6 DEF LinkType
    <3> QED BY <3>1, <1>2, <1>5, <1>6 DEF QueueOK
  <2> QED BY <1>1, <1>3, <1>4, <2>1, <2>2, <2>3, ClearMoves
<1>7. CASE link[l].mutex = t /\ link' = [link EXCEPT ![l].queue = Tail(@)]
  <2>1. link[l].queue \in Seq(Call) /\ link[l].queue # <<>> /\ t # None
    BY <1>1, <1>2, <1>7, Names DEF QueueOK, LinkType
  <2>2. PICK q \in Seq(Call) :
          /\ q = Tail(link[l].queue)
          /\ \A i \in DOMAIN q : i + 1 \in DOMAIN link[l].queue /\ q[i] = link[l].queue[i + 1] /\ i \in Nat \ {0}
    BY <2>1, HeadAndTail
  <2> DEFINE s == [link[l] EXCEPT !.queue = q]
  <2>3. /\ s \in LinkType /\ s.queue = q /\ s.current = link[l].current /\ s.mutex = t
        /\ s.dropped = link[l].dropped /\ s.raced = link[l].raced /\ s.reading = link[l].reading
        /\ s.listening = link[l].listening /\ s.header_read = link[l].header_read
    BY <1>1, <1>7 DEF LinkType
  <2>4. link' = [link EXCEPT ![l] = s]
    BY <1>7, <2>2
  <2> HIDE DEF s
  <2>5. link'[l] = s
    BY <2>4 DEF IInv, Types, ClientTypes
  <2>6. \A k \in Call : Charged(k, l)' => Charged(k, l)
    BY <2>2, <2>3, <2>5, ZenonT(30) DEF Charged
  <2>7. ThreadOK(t)'
    BY <1>1, <1>2, <1>3, <1>5, <2>3, <2>5 DEF ThreadOK
  <2>8. QueueOK(l)'
    <3>1. \A i, j \in DOMAIN q : q[i] = q[j] => i = j
      <4> SUFFICES ASSUME NEW i \in DOMAIN q, NEW j \in DOMAIN q, q[i] = q[j] PROVE i = j
        OBVIOUS
      <4>1. i + 1 = j + 1
        BY <2>2, <1>2 DEF QueueOK
      <4> QED BY <4>1, <2>2
    <3>2. \A i \in DOMAIN q : q[i] # s.current
      BY <2>2, <2>3, <1>2 DEF QueueOK
    <3>3. s.listening /\ thread'[t].link = l /\ thread'[t].at = "sweep"
      BY <1>1, <1>3, <1>5, <2>3
    <3> QED BY <3>1, <3>2, <3>3, <2>3, <2>5 DEF QueueOK
  <2> QED BY <1>1, <1>3, <1>4, <2>3, <2>4, <2>6, <2>7, <2>8, ClearMoves
<1> QED BY <1>1, <1>6, <1>7 DEF Cancelled

\* clearCalls() locks the queue, and goes on with its first call: the invariant is kept.
LEMMA SweepStep ==
  ASSUME IInv, NEW t \in Thread, Sweep(t), UNCHANGED server
  PROVE  IInv'
<1>1. PICK l \in Link : /\ thread[t].at = "sweep" /\ l = On(t) /\ l = thread[t].link /\ link[l] \in LinkType
                        /\ link[l].listening /\ thread[t] \in ThreadType /\ link[l].mutex \in {None, t}
  BY Where DEF Sweep
<1>2. /\ ThreadOK(t) /\ QueueOK(l) /\ link[l].dropped /\ thread \in [Thread -> ThreadType]
  BY <1>1 DEF IInv, Calling, ThreadOK, Clearing, Types, ClientTypes
<1>3. UNCHANGED <<server, wire, calls, server_link_, links, service_server_links_, shutting_down_>>
      /\ thread[t].at \in Clearing /\ thread[t].at # "cancel"
  BY <1>1 DEF Sweep, Clearing
<1>4. \A mutex \in {None, t} : \E s \in LinkType :
         /\ [link EXCEPT ![l].mutex = mutex] = [link EXCEPT ![l] = s]
         /\ s.queue = link[l].queue /\ s.current = link[l].current /\ s.mutex = mutex
         /\ s.dropped = link[l].dropped /\ s.raced = link[l].raced /\ s.reading = link[l].reading
         /\ s.listening = link[l].listening /\ s.header_read = link[l].header_read
  <2> SUFFICES ASSUME NEW mutex \in {None, t}
               PROVE  \E s \in LinkType :
                         /\ [link EXCEPT ![l].mutex = mutex] = [link EXCEPT ![l] = s]
                         /\ s.queue = link[l].queue /\ s.current = link[l].current /\ s.mutex = mutex
                         /\ s.dropped = link[l].dropped /\ s.raced = link[l].raced /\ s.reading = link[l].reading
                         /\ s.listening = link[l].listening /\ s.header_read = link[l].header_read
    OBVIOUS
  <2> DEFINE s == [link[l] EXCEPT !.mutex = mutex]
  <2>1. /\ s \in LinkType /\ s.queue = link[l].queue /\ s.current = link[l].current /\ s.mutex = mutex
        /\ s.dropped = link[l].dropped /\ s.raced = link[l].raced /\ s.reading = link[l].reading
        /\ s.listening = link[l].listening /\ s.header_read = link[l].header_read
    BY <1>1 DEF LinkType
  <2>2. [link EXCEPT ![l].mutex = mutex] = [link EXCEPT ![l] = s]
    OBVIOUS
  <2> HIDE DEF s
  <2> QED BY <2>1, <2>2
<1>5. CASE link[l].queue = <<>> /\ link' = [link EXCEPT ![l].mutex = None] /\ At(t, "remove")
  <2>1. PICK s \in LinkType :
         /\ link' = [link EXCEPT ![l] = s]
         /\ s.queue = link[l].queue /\ s.current = link[l].current /\ s.mutex = None
         /\ s.dropped = link[l].dropped /\ s.raced = link[l].raced /\ s.reading = link[l].reading
         /\ s.listening = link[l].listening /\ s.header_read = link[l].header_read
    BY <1>4, <1>5
  <2>2. PICK r \in ThreadType : /\ thread' = [thread EXCEPT ![t] = r] /\ r.at = "remove" /\ r.link = l
    BY <1>1, <1>5, AtMoves DEF IInv, Types, Steps, Clearing
  <2>3. thread'[t] = r /\ link'[l] = s /\ r.at \in Clearing
    BY <1>2, <2>1, <2>2 DEF Clearing, IInv, Types, ClientTypes
  <2>4. \A k \in Call : Charged(k, l)' => Charged(k, l)
    BY <2>1, <2>3 DEF Charged
  <2>5. ThreadOK(t)'
    BY <1>1, <1>2, <2>1, <2>2, <2>3 DEF ThreadOK
  <2>6. QueueOK(l)'
    BY <1>2, <2>1, <2>3 DEF QueueOK
  <2> QED BY <1>1, <1>3, <2>1, <2>2, <2>3, <2>4, <2>5, <2>6, ClearMoves
<1>6. CASE /\ link[l].queue # <<>> /\ link' = [link EXCEPT ![l].mutex = t]
           /\ thread' = [thread EXCEPT ![t].at = "cancel", ![t].call = Head(link[l].queue)]
  <2>1. PICK s \in LinkType :
         /\ link' = [link EXCEPT ![l] = s]
         /\ s.queue = link[l].queue /\ s.current = link[l].current /\ s.mutex = t
         /\ s.dropped = link[l].dropped /\ s.raced = link[l].raced /\ s.reading = link[l].reading
         /\ s.listening = link[l].listening /\ s.header_read = link[l].header_read
    BY <1>4, <1>6
  <2>2. PICK k \in Call : k = Head(link[l].queue) /\ Charged(k, l)
    BY <1>1, <1>6, HeadAndTail DEF LinkType, Charged
  <2>3. ChargedOK(k, l) /\ k \in Thread
    BY <2>2, Names DEF IInv, Calling
  <2> DEFINE r == [thread[t] EXCEPT !.at = "cancel", !.call = k]
  <2>4. r \in ThreadType /\ r.at = "cancel" /\ r.link = l /\ r.call = k
    BY <1>1 DEF ThreadType, Steps, Clearing
  <2>5. thread' = [thread EXCEPT ![t] = r]
    BY <1>6, <2>2
  <2> HIDE DEF r
  <2>6. thread'[t] = r /\ link'[l] = s /\ r.at \in Clearing /\ (\A u \in Thread : u # t => thread'[u] = thread[u])
    BY <1>2, <2>1, <2>4, <2>5 DEF Clearing, IInv, Types, ClientTypes
  <2>7. \A j \in Call : Charged(j, l)' => Charged(j, l)
    BY <2>1, <2>6 DEF Charged
  <2>8. ThreadOK(t)'
    <3>1. thread'[k].link = l /\ thread'[k].at \notin Unqueued
      BY <2>3, <2>4, <2>6 DEF ChargedOK, Unqueued
    <3> QED BY <3>1, <1>1, <1>2, <2>1, <2>4, <2>6 DEF ThreadOK
  <2>9. QueueOK(l)'
    <3>1. /\ link'[l].queue = link[l].queue /\ link'[l].current = link[l].current /\ link'[l].listening
          /\ link'[l].mutex = t /\ thread'[t].link = l /\ thread'[t].at = "cancel"
      BY <1>1, <2>1, <2>4, <2>6
    <3> QED BY <3>1, <1>2, <1>6 DEF QueueOK
  <2> QED BY <1>1, <1>3, <2>1, <2>4, <2>5, <2>6, <2>7, <2>8, <2>9, ClearMoves
<1> QED BY <1>1, <1>5, <1>6 DEF Sweep
-----------------------------------------------------------------------------
(* The steps of the server.                                                    *)

\* What is left to show of a step of the server.
LEMMA ServerStep ==
  ASSUME IInv, UNCHANGED <<client, regime, cut, client_closed>>, server_closed' \subseteq Link,
         up' \in [Link -> Seq(UpType)], down' \in [Link -> Seq(DownType)], ServerTypes',
         \A l \in Link : Carried(l)', QueuedOnce', Published'
  PROVE  IInv'
<1>1. WireTypes' /\ ClientTypes'
  BY DEF IInv, Types, WireTypes, ClientTypes, client
<1>2. Calling'
  BY ServerKeepsCalling DEF IInv, client
<1> QED BY <1>1, <1>2 DEF IInv, Types

\* The links whose message a step of the server does not move.
LEMMA ServerKeepsCarried ==
  ASSUME NEW l \in Link, Carried(l), UNCHANGED client, up'[l] = up[l], down'[l] = down[l], peer'[l] = peer[l],
         Polling(l)' => server_poll' = server_poll,
         \A i \in DOMAIN callbacks' : callbacks'[i].link = l => \E j \in DOMAIN callbacks : callbacks[j] = callbacks'[i],
         serving'.link = l => serving' = serving
  PROVE  Carried(l)'
<1>1. thread' = thread /\ link' = link
  BY DEF client
<1> QED BY <1>1, CarriedKept

\* A publication that is made is one of the publications.
LEMMA MadePub ==
  ASSUME WireTypes, ServerTypes
  PROVE  pubs \in Nat /\ regime.pubs \in Nat /\ (pubs < regime.pubs => pubs + 1 \in Pub /\ pubs + 1 \in 0 .. regime.pubs)
<1>1. regime.pubs \in Nat /\ regime \in Regime
  BY ServiceAssumption DEF WireTypes
<1>2. pubs \in 0 .. regime.pubs
  BY DEF ServerTypes
<1>3. pubs \in Nat /\ (pubs < regime.pubs => pubs + 1 \in 1 .. regime.pubs)
  BY <1>1, <1>2
<1>4. 1 .. regime.pubs \subseteq Pub
  BY <1>1 DEF Pub
<1> QED BY <1>1, <1>3, <1>4

\* The publications that are named somewhere are numbers.
LEMMA Numbers ==
  ASSUME ServerTypes
  PROVE  server_poll.pub \in Nat /\ \A l \in Link : peer[l].parent \in Nat /\ (peer[l].parent # None => peer[l].parent \in Pub)
<1>1. \A p \in Pub \cup {None} : p \in Nat
  BY Names DEF None
<1>2. server_poll.pub \in Pub \cup {None} /\ \A l \in Link : peer[l].parent \in Pub \cup {None}
  BY DEF ServerTypes, PeerType
<1> QED BY <1>1, <1>2

\* A step of the user that moves no message.
LEMMA UserStep ==
  ASSUME IInv, UNCHANGED <<client, regime, cut, client_closed, up, down, peer, callbacks, serving, server_poll, late, broken>>,
         server_closed' = server_closed, pubs' \in 0 .. regime.pubs, pubs <= pubs', pub' \in [Pub -> PubType],
         advertised' \in Pub \cup {None}, registered' \in BOOLEAN, user' \in [at : UserAt, pub : Pub \cup {None}],
         unadvertised' = unadvertised,
         UserOK', \A p \in Pub : PubOK(p)', \A p \in Pub : pub'[p].client_links_ = pub[p].client_links_
  PROVE  IInv'
<1>1. \A l \in Link : Carried(l)'
  <2> SUFFICES ASSUME NEW l \in Link PROVE Carried(l)'
    OBVIOUS
  <2>1. Carried(l) /\ up'[l] = up[l] /\ down'[l] = down[l] /\ peer'[l] = peer[l] /\ server_poll' = server_poll
        /\ serving' = serving
    BY DEF IInv
  <2>2. \A i \in DOMAIN callbacks' : callbacks'[i].link = l => \E j \in DOMAIN callbacks : callbacks[j] = callbacks'[i]
    OBVIOUS
  <2> QED BY <2>1, <2>2, ServerKeepsCarried
<1>2. ServerTypes' /\ QueuedOnce'
  BY DEF IInv, Types, ServerTypes, QueuedOnce
<1>3. PollOK'
  <2>1. PollOK /\ pubs \in Nat /\ regime.pubs \in Nat /\ server_poll.pub \in Nat
    BY MadePub, Numbers DEF IInv, Types, Published
  <2> QED BY <2>1 DEF PollOK
<1>4. \A l \in Link : ParentOK(l)'
  <2> SUFFICES ASSUME NEW l \in Link PROVE ParentOK(l)'
    OBVIOUS
  <2>1. ParentOK(l) /\ pubs \in Nat /\ regime.pubs \in Nat
    BY MadePub DEF IInv, Types, Published
  <2>2. peer[l].parent \in Nat /\ (peer[l].parent # None => peer[l].parent \in Pub)
    BY Numbers DEF IInv, Types
  <2> QED BY <2>1, <2>2 DEF ParentOK, Dropped
<1>5. Published'
  BY <1>3, <1>4 DEF Published
<1> QED BY <1>1, <1>2, <1>5, ServerStep DEF IInv, Types, WireTypes

\* advertiseService() makes a publication, which nobody has had: the invariant is kept.
LEMMA AdvertiseStep ==
  ASSUME IInv, Advertise, UNCHANGED client
  PROVE  IInv'
<1>1. /\ pubs \in Nat /\ pubs + 1 \in Pub /\ pubs' = pubs + 1 /\ pubs' \in 0 .. regime.pubs /\ pubs + 1 # None
      /\ advertised' = pubs + 1 /\ user' = [at |-> "register", pub |-> pubs + 1]
      /\ user.at = "idle"
  BY MadePub DEF Advertise, IInv, Types, None
<1>2. UNCHANGED <<regime, cut, client_closed, up, down, peer, callbacks, serving, server_poll, late, broken>>
      /\ UNCHANGED <<server_closed, registered, pub, unadvertised>>
  BY DEF Advertise, wire, history
<1>3. pub' \in [Pub -> PubType] /\ registered' \in BOOLEAN
  BY <1>2 DEF IInv, Types, ServerTypes
<1>4. pubs <= pubs' /\ user' \in [at : UserAt, pub : Pub \cup {None}] /\ advertised' \in Pub \cup {None}
  BY <1>1 DEF UserAt
<1>5. UserOK'
  BY <1>1 DEF UserOK
<1>6. \A p \in Pub : PubOK(p)'
  <2> SUFFICES ASSUME NEW p \in Pub PROVE PubOK(p)'
    OBVIOUS
  <2>1. PubOK(p) /\ p \in Nat /\ pubs \in Nat
    BY <1>1, Names DEF IInv, Published
  <2>2. pub'[p].destroyed => p \notin {advertised', user'.pub, server_poll'.pub} /\ pub'[p].client_links_ = {}
    BY <2>1, <1>1, <1>2 DEF PubOK
  <2>3. Past(p)' => Past(p)
    BY <1>1, <1>2 DEF Past
  <2>4. pub'[p].dropped_ => p <= pubs'
    BY <2>1, <1>1, <1>2 DEF PubOK
  <2> QED BY <2>1, <2>2, <2>3, <2>4, <1>2 DEF PubOK
<1> QED BY <1>1, <1>2, <1>3, <1>4, <1>5, <1>6, UserStep

\* A step of the user between those that move something.
LEMMA UserMoves ==
  ASSUME IInv, UNCHANGED <<client, wire, pubs, peer, callbacks, serving, server_poll, history>>,
         advertised' \in {advertised, None}, registered' \in BOOLEAN, user' \in [at : UserAt, pub : Pub \cup {None}],
         user'.pub \in {user.pub, advertised, None}, pub' \in [Pub -> PubType], UserOK',
         \A p \in Pub : /\ pub'[p].client_links_ = pub[p].client_links_ /\ pub'[p].destroyed = pub[p].destroyed
                        /\ pub[p].dropped_ => pub'[p].dropped_
                        /\ pub'[p].dropped_ => pub[p].dropped_ \/ p = user.pub,
         \A p \in Pub : Past(p)' => Past(p)
  PROVE  IInv'
<1>1. UNCHANGED <<regime, cut, client_closed, up, down, peer, callbacks, serving, server_poll, late, broken,
                  server_closed, unadvertised>>
  BY DEF wire, history
<1>2. pubs' \in 0 .. regime.pubs /\ pubs <= pubs' /\ advertised' \in Pub \cup {None} /\ pubs' = pubs
  BY MadePub DEF IInv, Types, ServerTypes
<1>3. \A p \in Pub : PubOK(p)'
  <2> SUFFICES ASSUME NEW p \in Pub PROVE PubOK(p)'
    OBVIOUS
  <2>1. PubOK(p) /\ p # None /\ UserOK
    BY Names DEF IInv, Published
  <2>2. pub'[p].destroyed => p \notin {advertised', user'.pub, server_poll'.pub} /\ pub'[p].client_links_ = {}
    BY <2>1, <1>1 DEF PubOK
  <2>3. pub'[p].destroyed \/ p \in unadvertised' => pub'[p].dropped_
    BY <2>1, <1>1 DEF PubOK
  <2>4. pub'[p].dropped_ => p <= pubs'
    BY <2>1, <1>2 DEF PubOK, UserOK
  <2>5. Past(p)' => pub'[p].client_links_ \subseteq late'
    BY <2>1, <1>1 DEF PubOK
  <2> QED BY <2>2, <2>3, <2>4, <2>5 DEF PubOK
<1> QED BY <1>1, <1>2, <1>3, UserStep

\* The user, where it is and with which publication.
LEMMA UserTypes ==
  ASSUME ServerTypes, NEW at \in UserAt
  PROVE  /\ [user EXCEPT !.at = at] \in [at : UserAt, pub : Pub \cup {None}]
         /\ [user EXCEPT !.at = at].at = at /\ [user EXCEPT !.at = at].pub = user.pub
BY DEF ServerTypes

\* advertiseService() registers the service: the invariant is kept.
LEMMA RegisterStep ==
  ASSUME IInv, Register, UNCHANGED client
  PROVE  IInv'
<1>1. user.at = "register" /\ registered' = TRUE /\ user' = [at |-> "idle", pub |-> None]
      /\ UNCHANGED <<wire, advertised, pub, pubs, peer, callbacks, serving, server_poll, history>>
  BY DEF Register
<1>2. user' \in [at : UserAt, pub : Pub \cup {None}] /\ pub' \in [Pub -> PubType]
  BY <1>1 DEF UserAt, IInv, Types, ServerTypes
<1>3. UserOK'
  <2>1. UserOK /\ pubs \in Nat
    BY MadePub DEF IInv, Types, Published
  <2> QED BY <2>1, <1>1 DEF UserOK, None
<1>4. \A p \in Pub : Past(p)' => Past(p)
  BY <1>1 DEF Past, history
<1> QED BY <1>1, <1>2, <1>3, <1>4, UserMoves

\* unadvertiseService() takes the publication out of the list: the invariant is kept.
LEMMA UnadvertiseStep ==
  ASSUME IInv, Unadvertise, UNCHANGED client
  PROVE  IInv'
<1>1. user.at = "idle" /\ advertised # None /\ advertised' = None /\ user' = [at |-> "unregister", pub |-> advertised]
      /\ UNCHANGED <<wire, registered, pub, pubs, peer, callbacks, serving, server_poll, history>>
  BY DEF Unadvertise
<1>2. user' \in [at : UserAt, pub : Pub \cup {None}] /\ pub' \in [Pub -> PubType] /\ registered' \in BOOLEAN
  BY <1>1 DEF UserAt, IInv, Types, ServerTypes
<1>3. UserOK'
  <2>1. UserOK /\ pubs \in Nat
    BY MadePub DEF IInv, Types, Published
  <2> QED BY <2>1, <1>1 DEF UserOK, None
<1>4. \A p \in Pub : Past(p)' => Past(p)
  BY <1>1 DEF Past, history
<1> QED BY <1>1, <1>2, <1>3, <1>4, UserMoves

\* unadvertiseService() unregisters the service: the invariant is kept.
LEMMA UnregisterStep ==
  ASSUME IInv, Unregister, UNCHANGED client
  PROVE  IInv'
<1>1. user.at = "unregister" /\ registered' = FALSE /\ user' = [user EXCEPT !.at = "drop"]
      /\ UNCHANGED <<wire, advertised, pub, pubs, peer, callbacks, serving, server_poll, history>>
  BY DEF Unregister
<1>2. user' \in [at : UserAt, pub : Pub \cup {None}] /\ pub' \in [Pub -> PubType] /\ user'.at = "drop" /\ user'.pub = user.pub
  BY <1>1, UserTypes DEF UserAt, IInv, Types, ServerTypes
<1>3. UserOK'
  <2>1. UserOK
    BY DEF IInv, Published
  <2> QED BY <2>1, <1>1, <1>2 DEF UserOK
<1>4. \A p \in Pub : Past(p)' => Past(p)
  BY <1>1, <1>2 DEF Past, history
<1> QED BY <1>1, <1>2, <1>3, <1>4, UserMoves

\* ServicePublication::drop() sets dropped_: the invariant is kept.
LEMMA DropPublicationStep ==
  ASSUME IInv, DropPublication, UNCHANGED client
  PROVE  IInv'
<1>1. user.at = "drop" /\ pub' = [pub EXCEPT ![user.pub].dropped_ = TRUE] /\ user' = [user EXCEPT !.at = "drop links"]
      /\ UNCHANGED <<wire, advertised, registered, pubs, peer, callbacks, serving, server_poll, history>>
  BY DEF DropPublication
<1>2. user' \in [at : UserAt, pub : Pub \cup {None}] /\ user'.at = "drop links" /\ user'.pub = user.pub /\ registered' \in BOOLEAN
  BY <1>1, UserTypes DEF UserAt, IInv, Types, ServerTypes
<1>3. UserOK /\ user.pub \in Pub /\ pub \in [Pub -> PubType]
  BY <1>1 DEF IInv, Types, Published, UserOK, ServerTypes
<1>4. /\ pub' \in [Pub -> PubType] /\ pub'[user.pub].dropped_
      /\ \A p \in Pub : /\ pub'[p].client_links_ = pub[p].client_links_ /\ pub'[p].destroyed = pub[p].destroyed
                        /\ pub[p].dropped_ => pub'[p].dropped_
                        /\ pub'[p].dropped_ => pub[p].dropped_ \/ p = user.pub
  BY <1>1, <1>3 DEF PubType
<1>5. UserOK'
  BY <1>1, <1>2, <1>3, <1>4 DEF UserOK
<1>6. \A p \in Pub : Past(p)' => Past(p)
  BY <1>1, <1>2 DEF Past, history
<1> QED BY <1>1, <1>2, <1>4, <1>5, <1>6, UserMoves

\* Callbacks that were in the queue, in their order.
KeptCallbacks ==
    /\ callbacks' \in Seq(EntryType) /\ QueuedOnce'
    /\ \A i \in DOMAIN callbacks' : \E j \in DOMAIN callbacks : callbacks[j] = callbacks'[i]

\* removeByID() keeps the order of the other callbacks.
LEMMA RemoveKeeps ==
  ASSUME callbacks \in Seq(EntryType), QueuedOnce, NEW p, RemoveByID(p)
  PROVE  KeptCallbacks
<1> DEFINE S == {c \in ToSet(callbacks) : c.pub # p}
           f == Filter(callbacks, S)
<1>1. f \in Seq(EntryType) /\ Embeds(f, callbacks, S, Len(callbacks))
  BY FilterKeepsOrder
<1>2. callbacks' = f
  BY DEF RemoveByID
<1> HIDE DEF S, f
<1>3. PICK pos \in [1 .. Len(f) -> 1 .. Len(callbacks)] :
        /\ \A i, j \in 1 .. Len(f) : i < j => pos[i] < pos[j]
        /\ \A i \in 1 .. Len(f) : f[i] = callbacks[pos[i]]
  BY <1>1 DEF Embeds
<1>4. DOMAIN f = 1 .. Len(f) /\ Len(f) \in Nat /\ DOMAIN callbacks = 1 .. Len(callbacks) /\ Len(callbacks) \in Nat
  BY <1>1
<1>5. \A i \in DOMAIN f : \E j \in DOMAIN callbacks : callbacks[j] = f[i]
  BY <1>3, <1>4
<1>6. ASSUME NEW i \in DOMAIN f, NEW j \in DOMAIN f, f[i].link = f[j].link PROVE i = j
  <2>1. pos[i] = pos[j]
    <3>1. pos[i] \in DOMAIN callbacks /\ pos[j] \in DOMAIN callbacks /\ callbacks[pos[i]].link = callbacks[pos[j]].link
      BY <1>3, <1>4, <1>6
    <3> QED BY <3>1 DEF QueuedOnce
  <2>2. ~ (i < j) /\ ~ (j < i) /\ i \in Nat /\ j \in Nat
    <3>1. i \in 1 .. Len(f) /\ j \in 1 .. Len(f) /\ pos[i] \in Nat
      BY <1>3, <1>4
    <3> QED BY <3>1, <2>1, <1>3, <1>4
  <2> QED BY <2>2
<1> QED BY <1>1, <1>2, <1>5, <1>6 DEF KeptCallbacks, QueuedOnce

\* A step of the server that moves the message of no link forward.
LEMMA ServerQuiet ==
  ASSUME IInv, UNCHANGED <<client, regime, cut, client_closed, up, down, peer>>, server_closed' \subseteq Link,
         server_poll' \in {server_poll, Nowhere}, serving' \in {serving, Nobody}, KeptCallbacks, ServerTypes', Published'
  PROVE  IInv'
<1>1. \A l \in Link : Carried(l)'
  <2> SUFFICES ASSUME NEW l \in Link PROVE Carried(l)'
    OBVIOUS
  <2>1. Carried(l) /\ up'[l] = up[l] /\ down'[l] = down[l] /\ peer'[l] = peer[l]
    BY DEF IInv
  <2>2. Polling(l)' => server_poll' = server_poll
    BY DEF Polling, Nowhere
  <2>3. \A i \in DOMAIN callbacks' : callbacks'[i].link = l => \E j \in DOMAIN callbacks : callbacks[j] = callbacks'[i]
    BY DEF KeptCallbacks
  <2>4. serving'.link = l => serving' = serving
    BY Names DEF Nobody
  <2> QED BY <2>1, <2>2, <2>3, <2>4, ServerKeepsCarried
<1> QED BY <1>1, ServerStep DEF IInv, Types, WireTypes, KeptCallbacks

\* What a step leaves of the publications when the user stays where it is.
LEMMA PublicationsKept ==
  ASSUME ServerTypes, Published, UNCHANGED <<advertised, user, pubs, unadvertised>>, PollOK', \A l \in Link : ParentOK(l)',
         \A p \in Pub : /\ pub'[p].destroyed => p \notin {advertised, user.pub, server_poll'.pub} /\ pub'[p].client_links_ = {}
                        /\ pub'[p].destroyed => pub'[p].dropped_
                        /\ pub[p].dropped_ => pub'[p].dropped_
                        /\ pub'[p].dropped_ => pub[p].dropped_ \/ p <= pubs
                        /\ Past(p) => pub'[p].client_links_ \subseteq late'
  PROVE  Published'
<1>1. UserOK'
  <2>1. UserOK /\ (user.at \in {"drop links", "remove", "release"} => user.pub \in Pub)
    BY DEF Published, UserOK, ServerTypes
  <2> QED BY <2>1 DEF UserOK
<1>2. ASSUME NEW p \in Pub PROVE PubOK(p)'
  <2>1. PubOK(p) /\ (Past(p)' => Past(p))
    BY DEF Published, Past
  <2> QED BY <2>1 DEF PubOK
<1> QED BY <1>1, <1>2 DEF Published

\* A connection that is closed leaves the list of its publication.
LEMMA ClosedKeepsPublished ==
  ASSUME WireTypes, ServerTypes, Published, NEW l \in Link, server_closed' = server_closed \cup {l}, pub' = WithoutLink(l),
         UNCHANGED <<advertised, user, pubs, server_poll, history>>,
         \A m \in Link : peer'[m].parent = peer[m].parent
  PROVE  Published' /\ pub' \in [Pub -> PubType] /\ server_closed' \subseteq Link
<1>1. pub' \in [Pub -> PubType] /\ server_closed' \subseteq Link
  <2>1. \A p \in Pub : pub[p] \in PubType
    BY DEF ServerTypes
  <2>2. \A p \in Pub : [pub[p] EXCEPT !.client_links_ = @ \ {l}] \in PubType
    BY <2>1 DEF PubType
  <2> QED BY <2>2 DEF WithoutLink, WireTypes
<1>2. \A p \in Pub : /\ pub'[p].destroyed = pub[p].destroyed /\ pub'[p].dropped_ = pub[p].dropped_
                     /\ pub'[p].client_links_ = pub[p].client_links_ \ {l}
  BY DEF WithoutLink, ServerTypes, PubType
<1>3. PollOK'
  <2>1. PollOK /\ (server_poll.at = "process" => server_poll.link \in Link)
    BY DEF Published, PollOK, ServerTypes
  <2> QED BY <2>1 DEF PollOK
<1>4. \A m \in Link : ParentOK(m)'
  <2> SUFFICES ASSUME NEW m \in Link PROVE ParentOK(m)'
    OBVIOUS
  <2>1. ParentOK(m) /\ (peer[m].parent # None => peer[m].parent \in Pub)
    BY Numbers DEF Published
  <2> QED BY <2>1, <1>2 DEF ParentOK, Dropped, history
<1>5. \A p \in Pub : PubOK(p)
  BY DEF Published
<1> QED BY <1>1, <1>2, <1>3, <1>4, <1>5, PublicationsKept DEF PubOK, history

\* The poll thread sees that the client has gone: the invariant is kept.
LEMMA ClientGoneStep ==
  ASSUME IInv, NEW l \in Link, ClientGone(l), UNCHANGED client
  PROVE  IInv'
<1>1. /\ server_closed' = server_closed \cup {l} /\ pub' = WithoutLink(l)
      /\ UNCHANGED <<regime, cut, client_closed, up, down, peer, advertised, registered, pubs, callbacks, serving, server_poll,
                     user, history>>
  BY DEF ClientGone
<1>2. Published' /\ pub' \in [Pub -> PubType] /\ server_closed' \subseteq Link
  BY <1>1, ClosedKeepsPublished DEF IInv, Types
<1>3. ServerTypes' /\ KeptCallbacks
  BY <1>1, <1>2 DEF IInv, Types, ServerTypes, history, QueuedOnce, KeptCallbacks
<1> QED BY <1>1, <1>2, <1>3, ServerQuiet

\* A publication that is let go of is left as it is, or destroyed.
LEMMA LetGoKeeps ==
  ASSUME WireTypes, ServerTypes, QueuedOnce, NEW p \in Pub, NEW held \in BOOLEAN, LetGo(p, held)
  PROVE  /\ pub' \in [Pub -> PubType] /\ server_closed' \subseteq Link /\ KeptCallbacks /\ server_closed \subseteq server_closed'
         /\ \A q \in Pub : q # p => pub'[q] = pub[q]
         /\ \/ held /\ pub'[p] = pub[p]
            \/ /\ ~held /\ pub'[p].destroyed /\ pub'[p].dropped_ /\ pub'[p].client_links_ = {}
               /\ pub[p].client_links_ \subseteq server_closed'
<1>1. pub \in [Pub -> PubType] /\ server_closed \subseteq Link /\ callbacks \in Seq(EntryType)
  BY DEF WireTypes, ServerTypes
<1>2. CASE held /\ UNCHANGED <<pub, callbacks, server_closed>>
  BY <1>1, <1>2 DEF KeptCallbacks, QueuedOnce
<1>3. CASE /\ ~held
           /\ server_closed' = server_closed \cup pub[p].client_links_
           /\ pub' = [pub EXCEPT ![p] = [dropped_ |-> TRUE, client_links_ |-> {}, destroyed |-> TRUE]]
           /\ RemoveByID(p)
  <2>1. KeptCallbacks
    BY <1>1, <1>3, RemoveKeeps
  <2>2. /\ pub' \in [Pub -> PubType] /\ pub'[p].destroyed /\ pub'[p].dropped_ /\ pub'[p].client_links_ = {}
        /\ \A q \in Pub : q # p => pub'[q] = pub[q]
    BY <1>1, <1>3 DEF PubType
  <2>3. server_closed' \subseteq Link
    BY <1>1, <1>3 DEF PubType
  <2> QED BY <1>3, <2>1, <2>2, <2>3
<1> QED BY <1>2, <1>3 DEF LetGo

\* The connections of a publication that is let go of are dropped with it.
LEMMA LetGoKeepsParents ==
  ASSUME ServerTypes, NEW l \in Link, ParentOK(l), UNCHANGED <<peer, pubs, broken>>, server_closed \subseteq server_closed',
         NEW p, \A q \in Pub : q # p => pub'[q] = pub[q],
         pub'[p].client_links_ = pub[p].client_links_ \/ pub[p].client_links_ \subseteq server_closed'
  PROVE  ParentOK(l)'
<1>1. peer[l].parent # None => peer[l].parent \in Pub
  BY Numbers
<1> QED BY <1>1 DEF ParentOK, Dropped

\* dropAllConnections() leaves the publication those that enter late: the invariant is kept.
LEMMA DropLinksStep ==
  ASSUME IInv, DropLinks, UNCHANGED client
  PROVE  IInv'
<1>1. PICK p \in Pub : p = user.pub /\ pub[p].dropped_ /\ user.at = "drop links" /\ UserOK
  BY DEF DropLinks, IInv, Types, Published, UserOK, ServerTypes
<1>2. /\ UNCHANGED <<regime, cut, up, down, client_closed, advertised, registered, pubs, peer, callbacks, serving, server_poll,
                     history>>
      /\ server_closed' = server_closed \cup pub[p].client_links_
      /\ pub' = [pub EXCEPT ![p].client_links_ = {}]
      /\ user' = [user EXCEPT !.at = "remove"]
  BY <1>1 DEF DropLinks, DropAllConnections
<1>3. user' \in [at : UserAt, pub : Pub \cup {None}] /\ user'.at = "remove" /\ user'.pub = p
  BY <1>1, <1>2, UserTypes DEF UserAt, IInv, Types
<1>4. pub \in [Pub -> PubType] /\ server_closed \subseteq Link
  BY DEF IInv, Types, WireTypes, ServerTypes
<1>5. /\ pub' \in [Pub -> PubType] /\ pub'[p].client_links_ = {}
      /\ \A q \in Pub : /\ pub'[q].destroyed = pub[q].destroyed /\ pub'[q].dropped_ = pub[q].dropped_
                        /\ q # p => pub'[q] = pub[q]
  BY <1>2, <1>4 DEF PubType
<1>6. server_closed' \subseteq Link
  BY <1>2, <1>4 DEF PubType
<1>7. ServerTypes' /\ KeptCallbacks
  BY <1>2, <1>3, <1>5 DEF IInv, Types, ServerTypes, history, QueuedOnce, KeptCallbacks
<1>8. Published'
  <2>1. UserOK'
    BY <1>1, <1>2, <1>3, <1>5, ZenonT(30) DEF UserOK
  <2>2. PollOK'
    BY <1>2 DEF IInv, Published, PollOK
  <2>3. ASSUME NEW q \in Pub PROVE PubOK(q)'
    <3>1. PubOK(q)
      BY DEF IInv, Published
    <3>2. Past(q)' => Past(q) \/ q = p
      BY <1>2, <1>3 DEF Past, history
    <3>3. pub'[q].client_links_ \subseteq pub[q].client_links_
      BY <1>5
    <3> QED BY <3>1, <3>2, <3>3, <1>1, <1>2, <1>3, <1>5, ZenonT(30) DEF PubOK, history
  <2>4. ASSUME NEW l \in Link PROVE ParentOK(l)'
    BY <1>2, <1>5, LetGoKeepsParents DEF IInv, Types, Published, history
  <2> QED BY <2>1, <2>2, <2>3, <2>4 DEF Published
<1> QED BY <1>2, <1>6, <1>7, <1>8, ServerQuiet

\* removeByID() takes the callbacks of the publication out of the queue: the invariant is kept.
LEMMA RemoveCallbacksStep ==
  ASSUME IInv, RemoveCallbacks, UNCHANGED client
  PROVE  IInv'
<1>1. /\ UNCHANGED <<wire, advertised, registered, pub, pubs, peer, serving, server_poll, history>>
      /\ user.at = "remove" /\ RemoveByID(user.pub) /\ user' = [user EXCEPT !.at = "release"]
  BY DEF RemoveCallbacks
<1>2. user' \in [at : UserAt, pub : Pub \cup {None}] /\ user'.at = "release" /\ user'.pub = user.pub
  BY <1>1, UserTypes DEF UserAt, IInv, Types
<1>3. KeptCallbacks
  BY <1>1, RemoveKeeps DEF IInv, Types, ServerTypes
<1>4. ServerTypes'
  BY <1>1, <1>2, <1>3 DEF IInv, Types, ServerTypes, history, KeptCallbacks, wire
<1>5. Published'
  <2>1. UserOK'
    BY <1>1, <1>2 DEF IInv, Published, UserOK
  <2>2. PollOK'
    BY <1>1 DEF IInv, Published, PollOK
  <2>3. ASSUME NEW p \in Pub PROVE PubOK(p)'
    BY <1>1, <1>2 DEF IInv, Published, PubOK, Past, history
  <2>4. ASSUME NEW l \in Link PROVE ParentOK(l)'
    BY <1>1 DEF IInv, Published, ParentOK, Dropped, wire, history
  <2> QED BY <2>1, <2>2, <2>3, <2>4 DEF Published
<1> QED BY <1>1, <1>3, <1>4, <1>5, ServerQuiet DEF wire, IInv, Types, WireTypes

\* unadvertiseService() returns, and lets go of the publication: the invariant is kept.
LEMMA UnadvertisedStep ==
  ASSUME IInv, Unadvertised, UNCHANGED client
  PROVE  IInv'
<1>1. PICK p \in Pub : p = user.pub /\ pub[p].dropped_ /\ user.at = "release" /\ UserOK
  BY DEF Unadvertised, IInv, Types, Published, UserOK, ServerTypes
<1>2. PICK held \in BOOLEAN : held = (server_poll.pub = p) /\ LetGo(p, held)
  BY <1>1 DEF Unadvertised
<1>3. /\ UNCHANGED <<regime, cut, up, down, client_closed, advertised, registered, pubs, peer, serving, server_poll, late, broken>>
      /\ unadvertised' = unadvertised \cup {p} /\ user' = [at |-> "idle", pub |-> None]
  BY <1>1 DEF Unadvertised
<1>4. /\ pub' \in [Pub -> PubType] /\ server_closed' \subseteq Link /\ KeptCallbacks /\ server_closed \subseteq server_closed'
      /\ \A q \in Pub : q # p => pub'[q] = pub[q]
      /\ \/ held /\ pub'[p] = pub[p]
         \/ /\ ~held /\ pub'[p].destroyed /\ pub'[p].dropped_ /\ pub'[p].client_links_ = {}
            /\ pub[p].client_links_ \subseteq server_closed'
  BY <1>2, LetGoKeeps DEF IInv, Types
<1>5. ServerTypes'
  BY <1>3, <1>4 DEF IInv, Types, ServerTypes, KeptCallbacks, UserAt
<1>6. Published'
  <2>1. UserOK' /\ advertised = None
    <3>1. pubs \in Nat /\ 0 <= pubs
      BY MadePub DEF IInv, Types
    <3> QED BY <3>1, <1>1, <1>3 DEF UserOK, None
  <2>2. PollOK'
    BY <1>3 DEF IInv, Published, PollOK
  <2>3. ASSUME NEW q \in Pub PROVE PubOK(q)'
    <3>1. PubOK(q) /\ q # None
      BY Names DEF IInv, Published
    <3>2. Past(q)' => Past(q)
      BY <1>1, <1>3 DEF Past
    <3>3. CASE q # p
      BY <3>1, <3>2, <3>3, <1>3, <1>4, <2>1 DEF PubOK
    <3>4. CASE q = p /\ held
      BY <3>1, <3>2, <3>4, <1>1, <1>2, <1>3, <1>4, <2>1 DEF PubOK
    <3>5. CASE q = p /\ ~held
      BY <3>1, <3>2, <3>5, <1>1, <1>2, <1>3, <1>4, <2>1 DEF PubOK
    <3> QED BY <3>3, <3>4, <3>5
  <2>4. ASSUME NEW l \in Link PROVE ParentOK(l)'
    BY <1>3, <1>4, LetGoKeepsParents DEF IInv, Types, Published
  <2> QED BY <2>1, <2>2, <2>3, <2>4 DEF Published
<1> QED BY <1>3, <1>4, <1>5, <1>6, ServerQuiet

\* The poll thread lets go of the publication: the invariant is kept.
LEMMA ReleasedStep ==
  ASSUME IInv, Released, UNCHANGED client
  PROVE  IInv'
<1>1. PICK p \in Pub : p = server_poll.pub /\ p <= pubs /\ UserOK
  BY DEF Released, IInv, Types, Published, PollOK, ServerTypes
<1>2. PICK held \in BOOLEAN : held = (p \in {advertised, user.pub}) /\ LetGo(p, held)
  <2>1. LetGo(p, p \in {advertised, user.pub})
    BY <1>1, Zenon DEF Released
  <2>2. (p \in {advertised, user.pub}) \in BOOLEAN
    OBVIOUS
  <2> QED BY <2>1, <2>2, Zenon
<1>3. /\ UNCHANGED <<regime, cut, up, down, client_closed, advertised, registered, pubs, peer, serving, user, history>>
      /\ server_poll' = Nowhere
  BY DEF Released
<1>4. /\ pub' \in [Pub -> PubType] /\ server_closed' \subseteq Link /\ KeptCallbacks /\ server_closed \subseteq server_closed'
      /\ \A q \in Pub : q # p => pub'[q] = pub[q]
      /\ \/ held /\ pub'[p] = pub[p]
         \/ /\ ~held /\ pub'[p].destroyed /\ pub'[p].dropped_ /\ pub'[p].client_links_ = {}
            /\ pub[p].client_links_ \subseteq server_closed'
  BY <1>2, LetGoKeeps DEF IInv, Types
<1>5. ServerTypes'
  BY <1>3, <1>4 DEF IInv, Types, ServerTypes, KeptCallbacks, history, Nowhere
<1>6. Published'
  <2>1. PollOK'
    <3>1. pubs \in Nat /\ 0 <= pubs
      BY MadePub DEF IInv, Types
    <3> QED BY <3>1, <1>3 DEF PollOK, Nowhere, None
  <2>2. \A l \in Link : ParentOK(l)'
    <3> SUFFICES ASSUME NEW l \in Link PROVE ParentOK(l)'
      OBVIOUS
    <3> QED BY <1>3, <1>4, LetGoKeepsParents DEF IInv, Types, Published, history
  <2>3. \A q \in Pub : /\ pub'[q].destroyed => q \notin {advertised, user.pub, server_poll'.pub} /\ pub'[q].client_links_ = {}
                       /\ pub'[q].destroyed => pub'[q].dropped_
                       /\ pub[q].dropped_ => pub'[q].dropped_
                       /\ pub'[q].dropped_ => pub[q].dropped_ \/ q <= pubs
                       /\ Past(q) => pub'[q].client_links_ \subseteq late'
    <3> SUFFICES ASSUME NEW q \in Pub
                 PROVE  /\ pub'[q].destroyed => q \notin {advertised, user.pub, server_poll'.pub} /\ pub'[q].client_links_ = {}
                        /\ pub'[q].destroyed => pub'[q].dropped_
                        /\ pub[q].dropped_ => pub'[q].dropped_
                        /\ pub'[q].dropped_ => pub[q].dropped_ \/ q <= pubs
                        /\ Past(q) => pub'[q].client_links_ \subseteq late'
      OBVIOUS
    <3>1. PubOK(q) /\ q # None /\ server_poll'.pub = None /\ late' = late
      BY <1>3, Names DEF IInv, Published, Nowhere, history
    <3>2. CASE pub'[q] = pub[q]
      BY <3>1, <3>2 DEF PubOK
    <3>3. CASE q = p /\ ~held
      BY <3>1, <3>3, <1>1, <1>2, <1>4 DEF PubOK
    <3> QED BY <3>2, <3>3, <1>4
  <2> QED BY <1>3, <2>1, <2>2, <2>3, PublicationsKept DEF IInv, Types, history
<1> QED BY <1>3, <1>4, <1>5, <1>6, ServerQuiet

\* A message that is at the server or on its way to it is not with the client.
LEMMA AwayFromClient ==
  ASSUME NEW l \in Link, Carried(l), up[l] # <<>> \/ Polling(l) \/ AtServer(l)
  PROVE  /\ down[l] = <<>> /\ link[l].listening
         /\ \A t \in Thread : ~Holds(t, l) /\ (thread[t].link = l => thread[t].at # "write")
         /\ up[l] # <<>> => ~Polling(l) /\ ~AtServer(l)
         /\ Polling(l) => up[l] = <<>> /\ ~AtServer(l)
         /\ AtServer(l) => up[l] = <<>> /\ ~Polling(l)
<1>1. InOnePlace(l) /\ PeerOK(l) /\ \A t \in Thread : WriterOK(t, l)
  BY DEF Carried
<1>2. ~Back(l)
  BY <1>1 DEF InOnePlace
<1>3. \A t \in Thread : thread[t].link = l => thread[t].at # "write"
  BY <1>1 DEF WriterOK
<1>4. link[l].listening
  BY <1>1 DEF PeerOK
<1> QED BY <1>1, <1>2, <1>3, <1>4 DEF Back, InOnePlace

\* A link that no publication has accepted has no call.
LEMMA Unanswered ==
  ASSUME NEW l \in Link, Carried(l), peer[l].parent = None
  PROVE  link[l].current = None /\ ~Ready(l)
BY DEF Carried, Ready

\* The server moves the message of a link.
LEMMA ServerMoves ==
  ASSUME NEW l \in Link, Carried(l), up[l] # <<>> \/ Polling(l) \/ AtServer(l), UNCHANGED client, up'[l] = <<>>,
         Polling(l)' => ~AtServer(l)' /\ down'[l] = <<>>,
         AtServer(l)' => down'[l] = <<>>,
         serving'.link = l => ~Queued(l)',
         peer'[l].reading = "header" => peer'[l].parent = None,
         peer'[l].reading = "request" => peer'[l].parent # None,
         Polling(l)' => IF server_poll'.at \in {"check", "add"} THEN peer'[l].parent = None
                        ELSE server_poll'.call = link[l].current /\ link[l].current # None,
         \A i \in DOMAIN callbacks' : EntryOK(callbacks[i], l)',
         EntryOK(serving, l)', DownOK(l)',
         Ready(l) => peer'[l].parent # None /\ down'[l] # <<<<"header", None>>>>
  PROVE  Carried(l)'
<1>1. thread' = thread /\ link' = link
  BY DEF client
<1>2. link[l].listening /\ \A t \in Thread : ~Holds(t, l) /\ (thread[t].link = l => thread[t].at # "write")
  BY AwayFromClient
<1>3. \A t \in Thread : ~Holds(t, l)'
  BY <1>1, <1>2 DEF Holds
<1>4. Back(l)' => down'[l] # <<>>
  BY <1>3 DEF Back
<1>5. InOnePlace(l)'
  BY <1>3, <1>4 DEF InOnePlace
<1>6. UpOK(l)'
  BY DEF UpOK
<1>7. PeerOK(l)'
  BY <1>1, <1>2 DEF PeerOK
<1>8. Ready(l) => Ready(l)'
  BY <1>1 DEF Ready
<1>9. \A t \in Thread : HolderOK(t, l)'
  BY <1>3 DEF HolderOK
<1>10. \A t \in Thread : WriterOK(t, l)'
  BY <1>1, <1>2, <1>8 DEF WriterOK, Carried
<1>11. link'[l].header_read \/ link'[l].current # None => Ready(l)'
  BY <1>1, <1>8 DEF Carried
<1> QED BY <1>5, <1>6, <1>7, <1>9, <1>10, <1>11 DEF Carried

\* ... and those of no other link.
LEMMA ServerMovesNoOther ==
  ASSUME \A m \in Link : Carried(m), UNCHANGED client, NEW l \in Link,
         \A m \in Link : m # l => up'[m] = up[m] /\ down'[m] = down[m] /\ peer'[m] = peer[m],
         server_poll' = server_poll \/ server_poll'.link = l \/ server_poll'.at \in {"idle", "release"},
         \A i \in DOMAIN callbacks' : callbacks'[i].link = l \/ \E j \in DOMAIN callbacks : callbacks[j] = callbacks'[i],
         serving' \in {serving, Nobody} \/ serving'.link = l
  PROVE  \A m \in Link : m # l => Carried(m)'
<1> SUFFICES ASSUME NEW m \in Link, m # l PROVE Carried(m)'
  OBVIOUS
<1>1. Polling(m)' => server_poll' = server_poll
  BY DEF Polling
<1>2. serving'.link = m => serving' = serving
  BY Names DEF Nobody
<1>3. \A i \in DOMAIN callbacks' : callbacks'[i].link = m => \E j \in DOMAIN callbacks : callbacks[j] = callbacks'[i]
  OBVIOUS
<1>4. Carried(m) /\ up'[m] = up[m] /\ down'[m] = down[m] /\ peer'[m] = peer[m]
  OBVIOUS
<1> QED BY <1>1, <1>2, <1>3, <1>4, ServerKeepsCarried

\* The poll thread takes what a client has written.
LEMMA Taken ==
  ASSUME WireTypes, NEW l \in Link, up[l] # <<>>, up' = [up EXCEPT ![l] = Tail(@)]
  PROVE  up' \in [Link -> Seq(UpType)] /\ up'[l] = Tail(up[l]) /\ \A m \in Link : m # l => up'[m] = up[m]
<1>1. up \in [Link -> Seq(UpType)]
  BY DEF WireTypes
<1>2. Tail(up[l]) \in Seq(UpType)
  BY <1>1
<1> QED BY <1>1, <1>2

\* The server writes a message.
LEMMA Written ==
  ASSUME WireTypes, NEW l \in Link, NEW message \in DownType, down' = [down EXCEPT ![l] = Append(@, message)], down[l] = <<>>
  PROVE  down' \in [Link -> Seq(DownType)] /\ down'[l] = <<message>> /\ \A m \in Link : m # l => down'[m] = down[m]
<1>1. down \in [Link -> Seq(DownType)]
  BY DEF WireTypes
<1>2. Append(down[l], message) = <<message>> /\ <<message>> \in Seq(DownType)
  OBVIOUS
<1> QED BY <1>1, <1>2

\* The connection is refused.
LEMMA RefusedCarried ==
  ASSUME WireTypes, NEW l \in Link, Carried(l), up[l] # <<>> \/ Polling(l), UNCHANGED client, peer[l].parent = None, up'[l] = <<>>,
         Refuse(l), peer'[l].parent = None, peer'[l].reading # "request", ~Polling(l)', UNCHANGED <<callbacks, serving>>
  PROVE  /\ Carried(l)' /\ down' \in [Link -> Seq(DownType)] /\ \A m \in Link : m # l => down'[m] = down[m]
         /\ server_closed' = server_closed \cup {l} /\ server_closed' \subseteq Link
<1>1. down[l] = <<>> /\ ~AtServer(l)
  BY AwayFromClient
<1>2. down' = [down EXCEPT ![l] = Append(@, <<"error", None>>)] /\ <<"error", None>> \in DownType
      /\ server_closed' = server_closed \cup {l} /\ server_closed' \subseteq Link
  BY DEF Refuse, DownType, WireTypes
<1>3. down' \in [Link -> Seq(DownType)] /\ down'[l] = <<<<"error", None>>>> /\ \A m \in Link : m # l => down'[m] = down[m]
  BY <1>1, <1>2, Written
<1>4. ~AtServer(l)'
  BY <1>1 DEF AtServer, Queued
<1>5. (\A i \in DOMAIN callbacks' : EntryOK(callbacks[i], l)') /\ EntryOK(serving, l)'
  BY <1>4 DEF AtServer, Queued, EntryOK
<1>6. link[l].current = None /\ ~Ready(l) /\ link' = link
  BY Unanswered DEF client
<1>7. DownOK(l)'
  BY <1>3, <1>6 DEF DownOK
<1>8. Carried(l)'
  BY <1>4, <1>5, <1>6, <1>7, ServerMoves DEF AtServer
<1> QED BY <1>2, <1>3, <1>8

\* A connection that is closed, and that no publication has in its list.
LEMMA PollKeepsPublished ==
  ASSUME WireTypes, ServerTypes, Published, NEW l \in Link, server_closed' \in {server_closed, server_closed \cup {l}},
         UNCHANGED <<advertised, user, pubs, pub, late, unadvertised>>, \A m \in Link : peer'[m].parent = peer[m].parent,
         PollOK', server_poll'.pub # None => ~pub[server_poll'.pub].destroyed,
         broken' \subseteq broken \cup server_closed
  PROVE  Published'
<1>1. \A m \in Link : ParentOK(m)'
  <2> SUFFICES ASSUME NEW m \in Link PROVE ParentOK(m)'
    OBVIOUS
  <2> QED BY DEF ParentOK, Dropped, Published
<1>2. \A p \in Pub : /\ PubOK(p) /\ p # None
                     /\ pub'[p].destroyed => p # server_poll'.pub
  BY Names DEF Published
<1> QED BY <1>1, <1>2, PublicationsKept DEF PubOK

\* handleHeader() looks the service up, or refuses: the invariant is kept.
LEMMA HeaderStep ==
  ASSUME IInv, NEW l \in Link, Header(l), UNCHANGED client
  PROVE  IInv'
<1>1. /\ Carried(l) /\ WireTypes /\ ServerTypes /\ Published /\ \A m \in Link : Carried(m)
      /\ peer \in [Link -> PeerType]
  BY DEF IInv, Types, ServerTypes
<1>2. /\ server_poll.at = "idle" /\ ~Dropped(l) /\ peer[l].reading = "header" /\ up[l] # <<>>
      /\ up' = [up EXCEPT ![l] = Tail(@)] /\ peer' = [peer EXCEPT ![l].reading = "none"]
      /\ UNCHANGED <<regime, cut, client_closed, advertised, registered, pub, pubs, callbacks, serving, user, history>>
  BY DEF Header, PollIdle
<1>3. peer[l].parent = None /\ link[l].current = None /\ ~Ready(l) /\ down[l] = <<>> /\ ~AtServer(l)
  <2>1. peer[l].parent = None
    BY <1>1, <1>2 DEF Carried, PeerOK
  <2> QED BY <1>1, <1>2, <2>1, Unanswered, AwayFromClient
<1>4. up[l] = <<<<"header", None>>>>
  BY <1>1, <1>2, <1>3 DEF Carried, UpOK
<1>5. up' \in [Link -> Seq(UpType)] /\ up'[l] = <<>> /\ \A m \in Link : m # l => up'[m] = up[m]
  <2>1. up' \in [Link -> Seq(UpType)] /\ up'[l] = Tail(up[l]) /\ \A m \in Link : m # l => up'[m] = up[m]
    BY <1>1, <1>2, Taken
  <2>2. Tail(<<<<"header", None>>>>) = <<>>
    OBVIOUS
  <2> QED BY <1>4, <2>1, <2>2
<1>6. /\ peer' \in [Link -> PeerType] /\ peer'[l].parent = None /\ peer'[l].reading = "none"
      /\ \A m \in Link : (m # l => peer'[m] = peer[m]) /\ peer'[m].parent = peer[m].parent
  BY <1>1, <1>2, <1>3 DEF PeerType
<1>7. \A i \in DOMAIN callbacks' : \E j \in DOMAIN callbacks : callbacks[j] = callbacks'[i]
  BY <1>2
<1>8. QueuedOnce'
  BY <1>2 DEF IInv, QueuedOnce
<1>9. CASE advertised = None /\ Refuse(l) /\ UNCHANGED server_poll
  <2>1. ~Polling(l)'
    BY <1>2, <1>9 DEF Polling
  <2>2. /\ Carried(l)' /\ down' \in [Link -> Seq(DownType)] /\ (\A m \in Link : m # l => down'[m] = down[m])
        /\ server_closed' = server_closed \cup {l} /\ server_closed' \subseteq Link
    BY <1>1, <1>2, <1>3, <1>5, <1>6, <1>9, <2>1, RefusedCarried
  <2>3. \A m \in Link : m # l => Carried(m)'
    BY <1>1, <1>2, <1>5, <1>6, <1>7, <1>9, <2>2, ServerMovesNoOther
  <2>4. ServerTypes'
    BY <1>1, <1>2, <1>6, <1>9 DEF ServerTypes, history
  <2>5. Published'
    <3>1. PollOK' /\ server_poll'.pub = None
      BY <1>1, <1>2, <1>9 DEF Published, PollOK, Nowhere
    <3> QED BY <1>1, <1>2, <1>6, <2>2, <3>1, PollKeepsPublished DEF history
  <2> QED BY <1>2, <1>5, <1>8, <2>2, <2>3, <2>4, <2>5, ServerStep
<1>10. CASE /\ advertised # None
            /\ server_poll' = [at |-> "check", pub |-> advertised, link |-> l, call |-> None]
            /\ UNCHANGED <<down, server_closed>>
  <2>1. /\ Polling(l)' /\ ~AtServer(l)' /\ down'[l] = <<>>
    BY <1>2, <1>3, <1>10 DEF Polling, AtServer, Queued
  <2>2. (\A i \in DOMAIN callbacks' : EntryOK(callbacks[i], l)') /\ EntryOK(serving, l)'
    BY <2>1 DEF AtServer, Queued, EntryOK
  <2>3. DownOK(l)' /\ serving'.link # l
    BY <2>1 DEF DownOK, AtServer
  <2>4. Carried(l)'
    BY <1>1, <1>2, <1>3, <1>5, <1>6, <1>10, <2>1, <2>2, <2>3, ServerMoves
  <2>5. \A m \in Link : m # l => Carried(m)'
    BY <1>1, <1>2, <1>5, <1>6, <1>7, <1>10, ServerMovesNoOther
  <2>6. ServerTypes'
    BY <1>1, <1>2, <1>6, <1>10 DEF ServerTypes, history
  <2>7. Published'
    <3>1. UserOK /\ advertised \in Pub /\ PubOK(advertised)
      BY <1>1, <1>10 DEF Published, ServerTypes
    <3>2. PollOK' /\ server_poll'.pub = advertised
      BY <3>1, <1>2, <1>10, Names DEF UserOK, PollOK
    <3> QED BY <1>1, <1>2, <1>6, <1>10, <3>1, <3>2, PollKeepsPublished DEF history, PubOK
  <2> QED BY <1>1, <1>2, <1>5, <1>8, <1>10, <2>4, <2>5, <2>6, <2>7, ServerStep DEF WireTypes
<1> QED BY <1>9, <1>10 DEF Header

\* The poll thread is with a message of a link.
LEMMA PolledLink ==
  ASSUME IInv, server_poll.at \in {"check", "add", "request", "process"}
  PROVE  \E l \in Link : /\ l = server_poll.link /\ Polling(l) /\ Carried(l) /\ ParentOK(l)
                         /\ up[l] = <<>> /\ down[l] = <<>> /\ ~AtServer(l)
<1>1. PollOK /\ ServerTypes
  BY DEF IInv, Published, Types
<1>2. PICK l \in Link : l = server_poll.link
  BY <1>1 DEF PollOK, ServerTypes
<1>3. Polling(l) /\ Carried(l) /\ ParentOK(l)
  BY <1>2 DEF Polling, IInv, Published
<1> QED BY <1>2, <1>3, AwayFromClient

\* Where the poll thread of the server goes on.
LEMMA PollTypes ==
  ASSUME ServerTypes, NEW at \in {"idle", "check", "add", "release", "request", "process"}
  PROVE  /\ [server_poll EXCEPT !.at = at]
               \in [at : {"idle", "check", "add", "release", "request", "process"}, pub : Pub \cup {None},
                    link : Link \cup {None}, call : Call \cup {None}]
         /\ [server_poll EXCEPT !.at = at].at = at /\ [server_poll EXCEPT !.at = at].pub = server_poll.pub
         /\ [server_poll EXCEPT !.at = at].link = server_poll.link /\ [server_poll EXCEPT !.at = at].call = server_poll.call
BY DEF ServerTypes

\* handleHeader() looks whether the publication has been dropped: the invariant is kept.
LEMMA CheckDroppedStep ==
  ASSUME IInv, CheckDropped, UNCHANGED client
  PROVE  IInv'
<1>1. /\ WireTypes /\ ServerTypes /\ Published /\ \A m \in Link : Carried(m)
      /\ peer \in [Link -> PeerType]
  BY DEF IInv, Types, ServerTypes
<1>2. PICK l \in Link : /\ l = server_poll.link /\ server_poll.at = "check" /\ Polling(l) /\ Carried(l)
                        /\ up[l] = <<>> /\ down[l] = <<>> /\ ~AtServer(l)
  BY PolledLink DEF CheckDropped
<1>3. UNCHANGED <<regime, cut, up, client_closed, advertised, registered, pub, pubs, peer, callbacks, serving, user, history>>
  BY DEF CheckDropped
<1>4. peer[l].parent = None /\ peer[l].reading # "request" /\ link[l].current = None /\ ~Ready(l)
  <2>1. peer[l].parent = None /\ peer[l].reading # "request"
    BY <1>2 DEF Carried, PeerOK
  <2> QED BY <1>2, <2>1, Unanswered
<1>5. QueuedOnce' /\ up' \in [Link -> Seq(UpType)]
  BY <1>1, <1>3 DEF IInv, QueuedOnce, WireTypes
<1>6. \A i \in DOMAIN callbacks' : \E j \in DOMAIN callbacks : callbacks[j] = callbacks'[i]
  BY <1>3
<1>7. PollOK /\ server_poll.pub # None /\ server_poll.pub \in Pub /\ ~pub[server_poll.pub].destroyed
  BY <1>1, <1>2 DEF Published, PollOK, PubOK, ServerTypes
<1>8. CASE Refuse(l) /\ server_poll' = [server_poll EXCEPT !.at = "release"]
  <2>1. /\ server_poll'.at = "release" /\ server_poll'.pub = server_poll.pub /\ server_poll'.link = l
        /\ server_poll' \in [at : {"idle", "check", "add", "release", "request", "process"}, pub : Pub \cup {None},
                             link : Link \cup {None}, call : Call \cup {None}]
    BY <1>1, <1>2, <1>8, PollTypes
  <2>2. ~Polling(l)'
    BY <2>1 DEF Polling
  <2>3. /\ Carried(l)' /\ down' \in [Link -> Seq(DownType)] /\ (\A m \in Link : m # l => down'[m] = down[m])
        /\ server_closed' = server_closed \cup {l} /\ server_closed' \subseteq Link
    <3>1. up'[l] = <<>> /\ peer'[l].parent = None /\ peer'[l].reading # "request" /\ UNCHANGED <<callbacks, serving>>
      BY <1>2, <1>3, <1>4
    <3> QED BY <1>1, <1>2, <1>4, <1>8, <2>2, <3>1, RefusedCarried
  <2>4. \A m \in Link : m # l => Carried(m)'
    <3>1. UNCHANGED <<up, peer, serving>>
      BY <1>3
    <3> QED BY <1>1, <1>6, <2>1, <2>3, <3>1, ServerMovesNoOther
  <2>5. ServerTypes'
    BY <1>1, <1>3, <2>1 DEF ServerTypes, history
  <2>6. Published'
    <3>1. PollOK'
      BY <1>3, <1>7, <2>1 DEF PollOK
    <3>2. server_poll'.pub # None => ~pub[server_poll'.pub].destroyed
      BY <1>7, <2>1
    <3> QED BY <1>1, <1>3, <2>3, <3>1, <3>2, PollKeepsPublished DEF history
  <2> QED BY <1>3, <1>5, <2>3, <2>4, <2>5, <2>6, ServerStep
<1>9. CASE server_poll' = [server_poll EXCEPT !.at = "add"] /\ UNCHANGED <<down, server_closed>>
  <2>1. /\ server_poll'.at = "add" /\ server_poll'.pub = server_poll.pub /\ server_poll'.link = l
        /\ server_poll' \in [at : {"idle", "check", "add", "release", "request", "process"}, pub : Pub \cup {None},
                             link : Link \cup {None}, call : Call \cup {None}]
    BY <1>1, <1>2, <1>9, PollTypes
  <2>2. Polling(l)' /\ ~AtServer(l)' /\ down'[l] = <<>> /\ up'[l] = <<>> /\ peer'[l] = peer[l]
    BY <1>2, <1>3, <1>9, <2>1 DEF Polling, AtServer, Queued
  <2>3. (\A i \in DOMAIN callbacks' : EntryOK(callbacks[i], l)') /\ EntryOK(serving, l)'
    BY <2>2 DEF AtServer, Queued, EntryOK
  <2>4. DownOK(l)' /\ serving'.link # l
    BY <2>2 DEF DownOK, AtServer
  <2>5. Carried(l)'
    BY <1>2, <1>4, <2>1, <2>2, <2>3, <2>4, ServerMoves
  <2>6. \A m \in Link : m # l => Carried(m)'
    <3>1. UNCHANGED <<up, down, peer, serving>>
      BY <1>3, <1>9
    <3> QED BY <1>1, <1>6, <2>1, <3>1, ServerMovesNoOther
  <2>7. ServerTypes'
    BY <1>1, <1>3, <2>1 DEF ServerTypes, history
  <2>8. Published'
    <3>1. PollOK'
      BY <1>2, <1>3, <1>7, <2>1 DEF PollOK
    <3>2. server_poll'.pub # None => ~pub[server_poll'.pub].destroyed
      BY <1>7, <2>1
    <3> QED BY <1>1, <1>2, <1>3, <1>9, <3>1, <3>2, PollKeepsPublished DEF history
  <2> QED BY <1>1, <1>3, <1>5, <1>9, <2>5, <2>6, <2>7, <2>8, ServerStep DEF WireTypes
<1> QED BY <1>2, <1>8, <1>9 DEF CheckDropped

\* The link enters the list of its publication, late when that has been dropped: the invariant is kept.
LEMMA AcceptStep ==
  ASSUME IInv, Accept, UNCHANGED client
  PROVE  IInv'
<1>1. /\ WireTypes /\ ServerTypes /\ Published /\ \A m \in Link : Carried(m)
      /\ peer \in [Link -> PeerType] /\ pub \in [Pub -> PubType]
  BY DEF IInv, Types, ServerTypes
<1>2. PICK l \in Link : /\ l = server_poll.link /\ server_poll.at = "add" /\ Polling(l) /\ Carried(l) /\ ParentOK(l)
                        /\ up[l] = <<>> /\ down[l] = <<>> /\ ~AtServer(l)
  BY PolledLink DEF Accept
<1>3. PICK p \in Pub : p = server_poll.pub /\ p <= pubs /\ p # None /\ ~pub[p].destroyed
  BY <1>1, <1>2 DEF Published, PollOK, PubOK, ServerTypes
<1>4. /\ UNCHANGED <<regime, cut, up, client_closed, server_closed, advertised, registered, pubs, callbacks, serving, user,
                     unadvertised, broken>>
      /\ pub' = [pub EXCEPT ![p].client_links_ = @ \cup {l}]
      /\ down' = [down EXCEPT ![l] = Append(@, <<"header", None>>)]
      /\ peer' = [peer EXCEPT ![l] = [parent |-> p, reading |-> "request"]]
      /\ late' = IF pub[p].dropped_ THEN late \cup {l} ELSE late
      /\ server_poll' = [server_poll EXCEPT !.at = "release"]
  BY <1>2, <1>3 DEF Accept, AddServiceClientLink
<1>5. peer[l].parent = None /\ link[l].current = None /\ ~Ready(l) /\ link' = link
  <2>1. peer[l].parent = None
    BY <1>2 DEF Carried, PeerOK
  <2> QED BY <1>2, <2>1, Unanswered DEF client
<1>6. /\ server_poll'.at = "release" /\ server_poll'.pub = p /\ server_poll'.link = l
      /\ server_poll' \in [at : {"idle", "check", "add", "release", "request", "process"}, pub : Pub \cup {None},
                           link : Link \cup {None}, call : Call \cup {None}]
  BY <1>1, <1>2, <1>3, <1>4, PollTypes
<1>7. down' \in [Link -> Seq(DownType)] /\ down'[l] = <<<<"header", None>>>> /\ \A m \in Link : m # l => down'[m] = down[m]
  <2>1. <<"header", None>> \in DownType
    BY DEF DownType
  <2> QED BY <1>1, <1>2, <1>4, <2>1, Written
<1>8. /\ peer' \in [Link -> PeerType] /\ peer'[l].parent = p /\ peer'[l].reading = "request"
      /\ \A m \in Link : m # l => peer'[m] = peer[m]
  BY <1>1, <1>4 DEF PeerType
<1>9. /\ pub' \in [Pub -> PubType] /\ pub'[p].client_links_ = pub[p].client_links_ \cup {l}
      /\ \A q \in Pub : /\ q # p => pub'[q] = pub[q]
                        /\ pub'[q].destroyed = pub[q].destroyed /\ pub'[q].dropped_ = pub[q].dropped_
  BY <1>1, <1>4 DEF PubType
<1>10. Carried(l)'
  <2>1. ~AtServer(l)' /\ ~Polling(l)' /\ up'[l] = <<>>
    BY <1>2, <1>4, <1>6 DEF AtServer, Queued, Polling
  <2>2. (\A i \in DOMAIN callbacks' : EntryOK(callbacks[i], l)') /\ EntryOK(serving, l)' /\ serving'.link # l
    BY <2>1 DEF AtServer, Queued, EntryOK
  <2>3. DownOK(l)'
    BY <1>3, <1>5, <1>7, <1>8 DEF DownOK
  <2> QED BY <1>2, <1>3, <1>5, <1>8, <2>1, <2>2, <2>3, ServerMoves
<1>11. \A m \in Link : m # l => Carried(m)'
  <2>1. \A i \in DOMAIN callbacks' : callbacks'[i].link = l \/ \E j \in DOMAIN callbacks : callbacks[j] = callbacks'[i]
    BY <1>4
  <2>2. \A m \in Link : m # l => up'[m] = up[m] /\ down'[m] = down[m] /\ peer'[m] = peer[m]
    BY <1>4, <1>7, <1>8
  <2> QED BY <1>1, <1>4, <1>6, <2>1, <2>2, ServerMovesNoOther
<1>12. ServerTypes' /\ QueuedOnce'
  <2>1. late' \subseteq Link
    BY <1>1, <1>4 DEF ServerTypes
  <2> QED BY <1>1, <1>4, <1>6, <1>8, <1>9, <2>1 DEF ServerTypes, IInv, QueuedOnce
<1>13. Published'
  <2>1. PollOK'
    BY <1>3, <1>4, <1>6 DEF PollOK
  <2>2. \A m \in Link : ParentOK(m)'
    <3> SUFFICES ASSUME NEW m \in Link PROVE ParentOK(m)'
      OBVIOUS
    <3>1. ParentOK(m) /\ (peer[m].parent # None => peer[m].parent \in Pub)
      BY <1>1, Numbers DEF Published
    <3>2. CASE m = l
      BY <3>1, <3>2, <1>2, <1>3, <1>4, <1>8, <1>9 DEF ParentOK, Dropped
    <3>3. CASE m # l
      BY <3>1, <3>3, <1>4, <1>8, <1>9 DEF ParentOK, Dropped
    <3> QED BY <3>2, <3>3
  <2>3. ASSUME NEW q \in Pub
        PROVE  /\ pub'[q].destroyed => q \notin {advertised, user.pub, server_poll'.pub} /\ pub'[q].client_links_ = {}
               /\ pub'[q].destroyed => pub'[q].dropped_
               /\ pub[q].dropped_ => pub'[q].dropped_
               /\ pub'[q].dropped_ => pub[q].dropped_ \/ q <= pubs
               /\ Past(q) => pub'[q].client_links_ \subseteq late'
    <3>1. PubOK(q) /\ UserOK
      BY <1>1 DEF Published
    <3>2. CASE q # p
      BY <3>1, <3>2, <1>4, <1>6, <1>9 DEF PubOK
    <3>3. CASE q = p
      <4>1. Past(p) => pub[p].dropped_ /\ pub[p].client_links_ \subseteq late
        BY <3>1, <3>3 DEF Past, PubOK, UserOK
      <4> QED BY <3>3, <4>1, <1>3, <1>4, <1>9
    <3> QED BY <3>2, <3>3
  <2> QED BY <1>1, <1>4, <2>1, <2>2, <2>3, PublicationsKept
<1> QED BY <1>1, <1>4, <1>7, <1>10, <1>11, <1>12, <1>13, ServerStep DEF WireTypes

\* The poll thread reads a request, which is that of the current call: the invariant is kept.
LEMMA RequestStep ==
  ASSUME IInv, NEW l \in Link, Request(l), UNCHANGED client
  PROVE  IInv'
<1>1. /\ Carried(l) /\ WireTypes /\ ServerTypes /\ Published /\ \A m \in Link : Carried(m)
      /\ peer \in [Link -> PeerType] /\ up \in [Link -> Seq(UpType)]
  BY DEF IInv, Types, ServerTypes, WireTypes
<1>2. /\ server_poll.at = "idle" /\ peer[l].reading = "request" /\ up[l] # <<>>
      /\ up' = [up EXCEPT ![l] = Tail(@)] /\ peer' = [peer EXCEPT ![l].reading = "none"]
      /\ server_poll' = [at |-> "request", pub |-> None, link |-> l, call |-> Head(up[l])[2]]
      /\ UNCHANGED <<regime, cut, down, client_closed, server_closed, advertised, registered, pub, pubs, callbacks, serving, user,
                     history>>
  BY DEF Request, PollIdle
<1>3. PICK k \in Call : k = link[l].current /\ up[l] = <<<<"request", k>>>> /\ k # None
  <2>1. up[l] = <<<<"request", link[l].current>>>> /\ link[l].current # None
    <3>1. UpOK(l) /\ peer[l].reading # "header"
      BY <1>1, <1>2 DEF Carried
    <3> QED BY <3>1, <1>2 DEF UpOK
  <2>2. link[l].current \in Call \cup {None}
    BY DEF IInv, Types, ClientTypes, LinkType
  <2> QED BY <2>1, <2>2
<1>4. Head(up[l])[2] = k /\ Tail(up[l]) = <<>>
  <2>1. Head(<<<<"request", k>>>>) = <<"request", k>> /\ Tail(<<<<"request", k>>>>) = <<>>
    OBVIOUS
  <2> QED BY <2>1, <1>3
<1>5. up' \in [Link -> Seq(UpType)] /\ up'[l] = <<>> /\ \A m \in Link : m # l => up'[m] = up[m]
  BY <1>1, <1>2, <1>4, Taken
<1>6. down[l] = <<>> /\ ~AtServer(l) /\ peer[l].parent # None
  BY <1>1, <1>2, AwayFromClient DEF Carried, PeerOK
<1>7. /\ peer' \in [Link -> PeerType] /\ peer'[l].parent = peer[l].parent /\ peer'[l].reading = "none"
      /\ \A m \in Link : (m # l => peer'[m] = peer[m]) /\ peer'[m].parent = peer[m].parent
  BY <1>1, <1>2 DEF PeerType
<1>8. Carried(l)'
  <2>1. ~AtServer(l)' /\ down'[l] = <<>>
    BY <1>2, <1>6 DEF AtServer, Queued
  <2>2. (\A i \in DOMAIN callbacks' : EntryOK(callbacks[i], l)') /\ EntryOK(serving, l)' /\ serving'.link # l
    BY <2>1 DEF AtServer, Queued, EntryOK
  <2>3. DownOK(l)'
    BY <2>1 DEF DownOK
  <2>4. server_poll'.at = "request" /\ server_poll'.call = link[l].current /\ link[l].current # None
    BY <1>2, <1>3, <1>4
  <2>5. /\ peer'[l].reading = "header" => peer'[l].parent = None
        /\ peer'[l].reading = "request" => peer'[l].parent # None
        /\ Ready(l) => peer'[l].parent # None /\ down'[l] # <<<<"header", None>>>>
    BY <1>6, <1>7, <2>1
  <2>6. Polling(l)' => IF server_poll'.at \in {"check", "add"} THEN peer'[l].parent = None
                       ELSE server_poll'.call = link[l].current /\ link[l].current # None
    BY <2>4
  <2> QED BY <1>1, <1>2, <1>5, <2>1, <2>2, <2>3, <2>5, <2>6, ServerMoves
<1>9. \A m \in Link : m # l => Carried(m)'
  <2>1. \A i \in DOMAIN callbacks' : callbacks'[i].link = l \/ \E j \in DOMAIN callbacks : callbacks[j] = callbacks'[i]
    BY <1>2
  <2>2. \A m \in Link : m # l => up'[m] = up[m] /\ down'[m] = down[m] /\ peer'[m] = peer[m]
    BY <1>2, <1>5, <1>7
  <2> QED BY <1>1, <1>2, <2>1, <2>2, ServerMovesNoOther
<1>10. ServerTypes' /\ QueuedOnce'
  BY <1>1, <1>2, <1>3, <1>4, <1>7 DEF ServerTypes, IInv, QueuedOnce, history
<1>11. Published'
  <2>1. PollOK'
    <3>1. pubs \in Nat /\ l # None
      BY <1>1, MadePub, Names
    <3> QED BY <3>1, <1>2 DEF PollOK, None
  <2> QED BY <1>1, <1>2, <1>7, <2>1, PollKeepsPublished DEF history
<1> QED BY <1>1, <1>2, <1>5, <1>8, <1>9, <1>10, <1>11, ServerStep DEF WireTypes

\* onRequest() locks the publication; where that is gone the connection is dropped: the invariant is kept.
LEMMA LockParentStep ==
  ASSUME IInv, LockParent, UNCHANGED client
  PROVE  IInv'
<1>1. /\ WireTypes /\ ServerTypes /\ Published /\ \A m \in Link : Carried(m)
  BY DEF IInv, Types
<1>2. PICK l \in Link : /\ l = server_poll.link /\ server_poll.at = "request" /\ Polling(l) /\ Carried(l) /\ ParentOK(l)
                        /\ up[l] = <<>> /\ down[l] = <<>> /\ ~AtServer(l)
  BY PolledLink DEF LockParent
<1>3. UNCHANGED <<wire, advertised, registered, pub, pubs, peer, callbacks, serving, user, unadvertised, late>>
  BY DEF LockParent
<1>4. server_poll.call = link[l].current /\ link[l].current # None /\ Ready(l) /\ peer[l].parent # None
  BY <1>2 DEF Carried, PeerOK, Ready
<1>5. PICK p \in Pub : p = peer[l].parent /\ p <= pubs /\ p # None /\ PubOK(p)
  BY <1>1, <1>2, <1>4, Numbers DEF ParentOK, Published
<1>6. CASE pub[p].destroyed /\ broken' = broken \cup {l} /\ server_poll' = Nowhere
  <2>1. l \in server_closed
    BY <1>2, <1>4, <1>5, <1>6 DEF ParentOK, PubOK, Dropped
  <2>2. ServerTypes'
    BY <1>1, <1>3, <1>6 DEF ServerTypes, Nowhere, wire
  <2>3. Published'
    <3>1. PollOK' /\ server_poll'.pub = None
      <4>1. pubs \in Nat /\ 0 <= pubs
        BY <1>1, MadePub
      <4> QED BY <4>1, <1>3, <1>6 DEF PollOK, Nowhere, None
    <3> QED BY <1>1, <1>2, <1>3, <1>6, <2>1, <3>1, PollKeepsPublished DEF wire
  <2>4. KeptCallbacks
    BY <1>1, <1>3 DEF KeptCallbacks, QueuedOnce, ServerTypes, IInv
  <2> QED BY <1>1, <1>3, <1>6, <2>2, <2>3, <2>4, ServerQuiet DEF wire, WireTypes
<1>7. CASE ~pub[p].destroyed /\ server_poll' = [server_poll EXCEPT !.at = "process", !.pub = p] /\ UNCHANGED broken
  <2>1. /\ server_poll'.at = "process" /\ server_poll'.pub = p /\ server_poll'.link = l /\ server_poll'.call = link[l].current
        /\ server_poll' \in [at : {"idle", "check", "add", "release", "request", "process"}, pub : Pub \cup {None},
                             link : Link \cup {None}, call : Call \cup {None}]
    BY <1>1, <1>2, <1>4, <1>7 DEF ServerTypes
  <2>2. Polling(l)' /\ ~AtServer(l)' /\ down'[l] = <<>> /\ up'[l] = <<>> /\ peer'[l] = peer[l]
    BY <1>2, <1>3, <2>1 DEF Polling, AtServer, Queued, wire
  <2>3. (\A i \in DOMAIN callbacks' : EntryOK(callbacks[i], l)') /\ EntryOK(serving, l)'
    BY <2>2 DEF AtServer, Queued, EntryOK
  <2>4. DownOK(l)' /\ serving'.link # l
    BY <2>2 DEF DownOK, AtServer
  <2>5. Carried(l)'
    <3>1. PeerOK(l)
      BY <1>2 DEF Carried
    <3>2. Ready(l) => peer'[l].parent # None /\ down'[l] # <<<<"header", None>>>>
      BY <1>4, <2>2
    <3>3. /\ peer'[l].reading = "header" => peer'[l].parent = None
          /\ peer'[l].reading = "request" => peer'[l].parent # None
      BY <3>1, <2>2 DEF PeerOK
    <3> QED BY <1>2, <1>4, <2>1, <2>2, <2>3, <2>4, <3>2, <3>3, ServerMoves
  <2>6. \A m \in Link : m # l => Carried(m)'
    <3>1. UNCHANGED <<up, down, peer, serving>>
      BY <1>3 DEF wire
    <3>2. \A i \in DOMAIN callbacks' : callbacks'[i].link = l \/ \E j \in DOMAIN callbacks : callbacks[j] = callbacks'[i]
      BY <1>3
    <3> QED BY <1>1, <2>1, <3>1, <3>2, ServerMovesNoOther
  <2>7. ServerTypes' /\ QueuedOnce'
    BY <1>1, <1>3, <1>7, <2>1 DEF ServerTypes, wire, IInv, QueuedOnce
  <2>8. Published'
    <3>1. PollOK'
      BY <1>2, <1>3, <1>5, <2>1, Names DEF PollOK
    <3> QED BY <1>1, <1>2, <1>3, <1>7, <2>1, <3>1, PollKeepsPublished DEF wire
  <2> QED BY <1>1, <1>3, <2>5, <2>6, <2>7, <2>8, ServerStep DEF WireTypes, wire
<1> QED BY <1>2, <1>5, <1>6, <1>7 DEF LockParent

\* processRequest() queues the callback, the only one of its link: the invariant is kept.
LEMMA ProcessRequestStep ==
  ASSUME IInv, ProcessRequest, UNCHANGED client
  PROVE  IInv'
<1>1. /\ WireTypes /\ ServerTypes /\ Published /\ (\A m \in Link : Carried(m)) /\ callbacks \in Seq(EntryType)
      /\ QueuedOnce
  BY DEF IInv, Types, ServerTypes
<1>2. PICK l \in Link : /\ l = server_poll.link /\ server_poll.at = "process" /\ Polling(l) /\ Carried(l) /\ ParentOK(l)
                        /\ up[l] = <<>> /\ down[l] = <<>> /\ ~AtServer(l)
  BY PolledLink DEF ProcessRequest
<1>3. UNCHANGED <<wire, advertised, registered, pub, pubs, peer, serving, user, history>>
  BY DEF ProcessRequest
<1>4. /\ server_poll.call = link[l].current /\ server_poll.call \in Call
      /\ server_poll.pub = peer[l].parent /\ server_poll.pub \in Pub
  <2>1. server_poll.call = link[l].current /\ link[l].current # None
    BY <1>2 DEF Carried, PeerOK
  <2>2. server_poll.pub = peer[l].parent /\ server_poll.pub # None
    BY <1>1, <1>2 DEF Published, PollOK
  <2> QED BY <1>1, <2>1, <2>2 DEF ServerTypes
<1>5. PICK c \in EntryType : c.link = l /\ c.call = link[l].current /\ c.pub = peer[l].parent /\ callbacks' = Append(callbacks, c)
  <2> DEFINE c == [pub |-> server_poll.pub, link |-> server_poll.link, call |-> server_poll.call]
  <2>1. c \in EntryType /\ c.link = l /\ c.call = link[l].current /\ c.pub = peer[l].parent
    BY <1>2, <1>4 DEF EntryType
  <2>2. callbacks' = Append(callbacks, c)
    BY DEF ProcessRequest
  <2> HIDE DEF c
  <2> QED BY <2>1, <2>2
<1>6. /\ callbacks' \in Seq(EntryType) /\ Len(callbacks) \in Nat
      /\ \A i \in DOMAIN callbacks' : \/ i \in DOMAIN callbacks /\ callbacks'[i] = callbacks[i]
                                      \/ i = Len(callbacks) + 1 /\ callbacks'[i] = c
  BY <1>1, <1>5
<1>7. /\ server_poll'.at = "release" /\ server_poll'.pub = server_poll.pub /\ server_poll'.link = l
      /\ server_poll' \in [at : {"idle", "check", "add", "release", "request", "process"}, pub : Pub \cup {None},
                           link : Link \cup {None}, call : Call \cup {None}]
  BY <1>1, <1>2, PollTypes DEF ProcessRequest
<1>8. \A i \in DOMAIN callbacks : callbacks[i].link # l
  BY <1>2 DEF AtServer, Queued
<1>9. Carried(l)'
  <2>1. ~Polling(l)' /\ down'[l] = <<>> /\ up'[l] = <<>> /\ peer'[l] = peer[l] /\ serving'.link # l /\ link' = link
    BY <1>2, <1>3, <1>7 DEF Polling, AtServer, wire, client
  <2>2. (\A i \in DOMAIN callbacks' : EntryOK(callbacks[i], l)') /\ EntryOK(serving, l)'
    BY <1>5, <1>6, <1>8, <2>1 DEF EntryOK
  <2>3. DownOK(l)'
    BY <2>1 DEF DownOK
  <2>4. PeerOK(l)
    BY <1>2 DEF Carried
  <2>5. /\ peer'[l].reading = "header" => peer'[l].parent = None
        /\ peer'[l].reading = "request" => peer'[l].parent # None
    BY <2>1, <2>4 DEF PeerOK
  <2>6. Ready(l) => peer'[l].parent # None /\ down'[l] # <<<<"header", None>>>>
    BY <2>1 DEF Ready
  <2> QED BY <1>2, <2>1, <2>2, <2>3, <2>5, <2>6, ServerMoves
<1>10. \A m \in Link : m # l => Carried(m)'
  <2>1. UNCHANGED <<up, down, peer, serving>>
    BY <1>3 DEF wire
  <2>2. \A i \in DOMAIN callbacks' : callbacks'[i].link = l \/ \E j \in DOMAIN callbacks : callbacks[j] = callbacks'[i]
    BY <1>5, <1>6
  <2> QED BY <1>1, <1>7, <2>1, <2>2, ServerMovesNoOther
<1>11. ServerTypes'
  BY <1>1, <1>3, <1>6, <1>7 DEF ServerTypes, wire, history
<1>12. QueuedOnce'
  BY <1>1, <1>5, <1>6, <1>8 DEF QueuedOnce
<1>13. Published'
  <2>1. PollOK' /\ (server_poll'.pub # None => ~pub[server_poll'.pub].destroyed)
    BY <1>1, <1>2, <1>3, <1>4, <1>7 DEF PollOK, Published, PubOK
  <2> QED BY <1>1, <1>2, <1>3, <2>1, PollKeepsPublished DEF wire, history
<1> QED BY <1>1, <1>3, <1>9, <1>10, <1>11, <1>12, <1>13, ServerStep DEF WireTypes, wire

\* The spinner begins with the first callback: the invariant is kept.
LEMMA ServeStep ==
  ASSUME IInv, Serve, UNCHANGED client
  PROVE  IInv'
<1>1. /\ WireTypes /\ ServerTypes /\ Published /\ (\A m \in Link : Carried(m)) /\ callbacks \in Seq(EntryType)
      /\ QueuedOnce
  BY DEF IInv, Types, ServerTypes
<1>2. UNCHANGED <<wire, advertised, registered, pub, pubs, peer, server_poll, user, history>>
      /\ serving = Nobody /\ callbacks # <<>> /\ callbacks' = Tail(callbacks)
  BY DEF Serve
<1>3. PICK c \in EntryType : c = Head(callbacks) /\ c = callbacks[1] /\ serving' \in {c, Nobody} /\ 1 \in DOMAIN callbacks
  <2>1. Head(callbacks) \in EntryType /\ Head(callbacks) = callbacks[1] /\ 1 \in DOMAIN callbacks
    BY <1>1, <1>2
  <2> QED BY <2>1 DEF Serve
<1>4. /\ callbacks' \in Seq(EntryType)
      /\ \A i \in DOMAIN callbacks' : i + 1 \in DOMAIN callbacks /\ callbacks'[i] = callbacks[i + 1] /\ i \in Nat \ {0}
  BY <1>1, <1>2
<1>5. PICK l \in Link : l = c.link /\ Carried(l) /\ Queued(l)
  BY <1>1, <1>3 DEF EntryType, Queued
<1>6. \A i \in DOMAIN callbacks' : callbacks'[i].link # l
  <2> SUFFICES ASSUME NEW i \in DOMAIN callbacks', callbacks'[i].link = l PROVE FALSE
    OBVIOUS
  <2>1. i + 1 = 1
    BY <1>1, <1>3, <1>4, <1>5 DEF QueuedOnce
  <2> QED BY <2>1, <1>4
<1>7. AtServer(l) /\ up[l] = <<>> /\ down[l] = <<>> /\ ~Polling(l)
  BY <1>5, AwayFromClient DEF AtServer
<1>8. Carried(l)'
  <2>1. ~Polling(l)' /\ down'[l] = <<>> /\ up'[l] = <<>> /\ peer'[l] = peer[l] /\ link' = link /\ ~Queued(l)'
    BY <1>2, <1>6, <1>7 DEF Polling, wire, client, Queued
  <2>2. \A i \in DOMAIN callbacks' : EntryOK(callbacks[i], l)'
    BY <1>6 DEF EntryOK
  <2>3. EntryOK(serving, l)'
    <3>1. EntryOK(c, l)
      BY <1>3, <1>5 DEF Carried
    <3>2. serving'.link = l => serving' = c
      BY <1>3, Names DEF Nobody
    <3> QED BY <2>1, <3>1, <3>2 DEF EntryOK
  <2>4. DownOK(l)'
    BY <2>1 DEF DownOK
  <2>5. PeerOK(l)
    BY <1>5 DEF Carried
  <2>6. /\ peer'[l].reading = "header" => peer'[l].parent = None
        /\ peer'[l].reading = "request" => peer'[l].parent # None
    BY <2>1, <2>5 DEF PeerOK
  <2>7. Ready(l) => peer'[l].parent # None /\ down'[l] # <<<<"header", None>>>>
    BY <2>1 DEF Ready
  <2> QED BY <1>5, <1>7, <2>1, <2>2, <2>3, <2>4, <2>6, <2>7, ServerMoves
<1>9. \A m \in Link : m # l => Carried(m)'
  <2>1. UNCHANGED <<up, down, peer, server_poll>>
    BY <1>2 DEF wire
  <2>2. \A i \in DOMAIN callbacks' : callbacks'[i].link = l \/ \E j \in DOMAIN callbacks : callbacks[j] = callbacks'[i]
    BY <1>4
  <2>3. serving' \in {serving, Nobody} \/ serving'.link = l
    BY <1>3, <1>5
  <2> QED BY <1>1, <2>1, <2>2, <2>3, ServerMovesNoOther
<1>10. ServerTypes'
  <2>1. serving' \in EntryType \cup {Nobody}
    BY <1>3
  <2> QED BY <1>1, <1>2, <1>4, <2>1 DEF ServerTypes, wire, history
<1>11. QueuedOnce'
  <2> SUFFICES ASSUME NEW i \in DOMAIN callbacks', NEW j \in DOMAIN callbacks', callbacks'[i].link = callbacks'[j].link
               PROVE  i = j
    BY DEF QueuedOnce
  <2>1. i + 1 = j + 1
    BY <1>1, <1>4 DEF QueuedOnce
  <2> QED BY <2>1, <1>4
<1>12. Published'
  <2>1. PollOK' /\ (server_poll'.pub # None => ~pub[server_poll'.pub].destroyed)
    <3>1. PollOK /\ server_poll.pub \in Pub \cup {None} /\ \A p \in Pub : PubOK(p)
      BY <1>1 DEF Published, ServerTypes
    <3> QED BY <3>1, <1>2 DEF PollOK, PubOK
  <2> QED BY <1>1, <1>2, <1>5, <2>1, PollKeepsPublished DEF wire, history
<1> QED BY <1>1, <1>2, <1>8, <1>9, <1>10, <1>11, <1>12, ServerStep DEF WireTypes, wire

\* The response is written to the link of the callback: the invariant is kept.
LEMMA ServedStep ==
  ASSUME IInv, NEW ok \in BOOLEAN, Served(ok), UNCHANGED client
  PROVE  IInv'
<1>1. /\ WireTypes /\ ServerTypes /\ Published /\ (\A m \in Link : Carried(m))
      /\ peer \in [Link -> PeerType] /\ down \in [Link -> Seq(DownType)] /\ serving \in EntryType
  BY DEF IInv, Types, ServerTypes, WireTypes, Served
<1>2. UNCHANGED <<regime, cut, up, client_closed, advertised, registered, pubs, callbacks, server_poll, user, history>>
      /\ serving' = Nobody
  BY DEF Served
<1>3. PICK l \in Link, k \in Call :
         /\ l = serving.link /\ k = serving.call /\ k = link[l].current /\ serving.pub = peer[l].parent
         /\ peer[l].parent # None /\ Carried(l) /\ AtServer(l) /\ k # None
  <2>1. serving.link \in Link /\ serving.call \in Call /\ serving.pub \in Pub
    BY <1>1 DEF EntryType
  <2>2. PICK l \in Link : l = serving.link /\ Carried(l) /\ AtServer(l)
    BY <1>1, <2>1 DEF AtServer
  <2>3. serving.call = link[l].current /\ serving.pub = peer[l].parent
    BY <2>2 DEF Carried, EntryOK
  <2> QED BY <2>1, <2>2, <2>3, Names
<1>4. KeptCallbacks
  BY <1>1, <1>2 DEF KeptCallbacks, QueuedOnce, ServerTypes, IInv
<1>5. CASE UNCHANGED <<down, server_closed, pub, peer>>
  <2>1. ServerTypes'
    BY <1>1, <1>2, <1>5 DEF ServerTypes, history
  <2>2. PollOK' /\ (server_poll'.pub # None => ~pub[server_poll'.pub].destroyed)
    <3>1. PollOK /\ server_poll.pub \in Pub \cup {None} /\ \A p \in Pub : PubOK(p)
      BY <1>1 DEF Published, ServerTypes
    <3> QED BY <3>1, <1>2, <1>5 DEF PollOK, PubOK
  <2>3. Published'
    BY <1>1, <1>2, <1>3, <1>5, <2>2, PollKeepsPublished DEF history
  <2> QED BY <1>1, <1>2, <1>4, <1>5, <2>1, <2>3, ServerQuiet DEF WireTypes
<1>6. CASE /\ down' = [down EXCEPT ![l] = @ \o <<<<IF ok THEN "ok" ELSE "failed", k>>, <<"body", k>>>>]
           /\ \/ peer' = [peer EXCEPT ![l].reading = "request"] /\ UNCHANGED <<server_closed, pub>>
              \/ server_closed' = server_closed \cup {l} /\ pub' = WithoutLink(l) /\ UNCHANGED peer
  <2>1. up[l] = <<>> /\ down[l] = <<>> /\ ~Polling(l)
    BY <1>3, AwayFromClient
  <2>2. PICK o \in {"ok", "failed"} : o = IF ok THEN "ok" ELSE "failed"
    OBVIOUS
  <2>3. /\ down' \in [Link -> Seq(DownType)] /\ down'[l] = <<<<o, k>>, <<"body", k>>>>
        /\ \A m \in Link : m # l => down'[m] = down[m]
    <3>1. <<<<o, k>>, <<"body", k>>>> \in Seq(DownType)
      <4>1. <<o, k>> \in DownType /\ <<"body", k>> \in DownType
        BY DEF DownType
      <4> QED BY <4>1
    <3>2. <<>> \o <<<<o, k>>, <<"body", k>>>> = <<<<o, k>>, <<"body", k>>>>
      OBVIOUS
    <3>3. down' = [down EXCEPT ![l] = @ \o <<<<o, k>>, <<"body", k>>>>]
      BY <1>6, <2>2
    <3> QED BY <3>1, <3>2, <3>3, <2>1, <1>1
  <2>4. /\ peer' \in [Link -> PeerType] /\ peer'[l].parent = peer[l].parent
        /\ peer'[l].reading \in {peer[l].reading, "request"}
        /\ \A m \in Link : (m # l => peer'[m] = peer[m]) /\ peer'[m].parent = peer[m].parent
    <3>1. [peer[l] EXCEPT !.reading = "request"] \in PeerType
      BY <1>1 DEF PeerType
    <3>2. CASE UNCHANGED peer
      BY <1>1, <3>2
    <3>3. CASE peer' = [peer EXCEPT ![l].reading = "request"]
      BY <1>1, <3>1, <3>3 DEF PeerType
    <3> QED BY <1>6, <3>2, <3>3
  <2>5. /\ server_closed' \subseteq Link /\ pub' \in [Pub -> PubType] /\ Published'
    <3>1. CASE server_closed' = server_closed \cup {l} /\ pub' = WithoutLink(l) /\ UNCHANGED peer
      BY <1>1, <1>2, <2>4, <3>1, ClosedKeepsPublished
    <3>2. CASE UNCHANGED <<server_closed, pub>>
      <4>1. PollOK' /\ (server_poll'.pub # None => ~pub[server_poll'.pub].destroyed)
        <5>1. PollOK /\ server_poll.pub \in Pub \cup {None} /\ \A p \in Pub : PubOK(p)
          BY <1>1 DEF Published, ServerTypes
        <5>2. server_poll.at = "process" => server_poll.link \in Link
          BY <1>1 DEF Published, PollOK, ServerTypes
        <5> QED BY <5>1, <5>2, <1>2, <2>4, <3>2 DEF PollOK, PubOK
      <4>2. Published'
        BY <1>1, <1>2, <1>3, <2>4, <3>2, <4>1, PollKeepsPublished DEF history
      <4> QED BY <1>1, <3>2, <4>2 DEF WireTypes, ServerTypes
    <3> QED BY <1>6, <3>1, <3>2
  <2>6. ServerTypes' /\ up' \in [Link -> Seq(UpType)] /\ QueuedOnce'
    BY <1>1, <1>2, <2>4, <2>5 DEF ServerTypes, WireTypes, history, QueuedOnce, IInv
  <2>7. Carried(l)'
    <3>1. serving'.link # l /\ ~Polling(l)' /\ up'[l] = <<>> /\ link' = link
      BY <1>2, <2>1, Names DEF Nobody, Polling, client
    <3>2. ~AtServer(l)'
      <4>1. ~Queued(l)
        BY <1>3 DEF Carried, InOnePlace
      <4> QED BY <4>1, <3>1, <1>2 DEF AtServer, Queued
    <3>3. (\A i \in DOMAIN callbacks' : EntryOK(callbacks[i], l)') /\ EntryOK(serving, l)'
      BY <3>2 DEF AtServer, Queued, EntryOK
    <3>4. DownOK(l)'
      <4>1. link'[l].current = k /\ k # None
        BY <3>1, <1>3
      <4> QED BY <4>1, <2>3 DEF DownOK
    <3>5. down'[l] # <<<<"header", None>>>>
      BY <2>3
    <3>6. peer'[l].reading = "header" => peer'[l].parent = None
      <4>1. PeerOK(l)
        BY <1>3 DEF Carried
      <4>2. peer[l].reading # "header"
        BY <4>1, <1>3 DEF PeerOK
      <4> QED BY <4>2, <2>4
    <3> QED BY <1>3, <2>4, <3>1, <3>2, <3>3, <3>4, <3>5, <3>6, ServerMoves
  <2>8. \A m \in Link : m # l => Carried(m)'
    <3>1. \A i \in DOMAIN callbacks' : callbacks'[i].link = l \/ \E j \in DOMAIN callbacks : callbacks[j] = callbacks'[i]
      BY <1>2
    <3>2. \A m \in Link : m # l => up'[m] = up[m] /\ down'[m] = down[m] /\ peer'[m] = peer[m]
      BY <1>2, <2>3, <2>4
    <3> QED BY <1>1, <1>2, <3>1, <3>2, ServerMovesNoOther
  <2> QED BY <1>2, <2>3, <2>5, <2>6, <2>7, <2>8, ServerStep
<1> QED BY <1>3, <1>5, <1>6 DEF Served

\* A step that leaves both ends as they are.
LEMMA NeitherMoves ==
  ASSUME IInv, UNCHANGED <<regime, up, down, client_closed, server_closed, client, server>>, cut' \subseteq Link
  PROVE  IInv'
<1>1. WireTypes' /\ ClientTypes'
  BY DEF IInv, Types, WireTypes, ClientTypes, client
<1>2. Calling'
  BY ServerKeepsCalling DEF IInv, client
<1>3. ServerTypes' /\ Published' /\ QueuedOnce'
  BY ClientKeepsPublished DEF IInv, Types
<1>4. \A m \in Link : Carried(m)'
  <2> SUFFICES ASSUME NEW m \in Link PROVE Carried(m)'
    OBVIOUS
  <2>1. Carried(m) /\ UNCHANGED <<client, up, down, peer, callbacks, serving, server_poll>>
    BY DEF IInv, server
  <2>2. \A i \in DOMAIN callbacks' : callbacks'[i].link = m => \E j \in DOMAIN callbacks : callbacks[j] = callbacks'[i]
    BY <2>1
  <2> QED BY <2>1, <2>2, ServerKeepsCarried
<1> QED BY <1>1, <1>2, <1>3, <1>4 DEF IInv, Types

\* A connection breaks: the invariant is kept.
LEMMA BreakStep ==
  ASSUME IInv, NEW l \in Link, Break(l)
  PROVE  IInv'
BY NeitherMoves DEF Break, IInv, Types, WireTypes

\* A step of the client keeps the invariant ...
LEMMA ClientNext ==
  ASSUME IInv, Client, UNCHANGED server
  PROVE  IInv'
<1>1. ASSUME NEW t \in Thread, Clear(t) PROVE IInv'
  BY <1>1, ClearCurrentStep, CancelStep, CancelledStep, SweepStep, RemoveStep DEF Clear
<1>2. ASSUME NEW t \in Thread, Received(t) PROVE IInv'
  BY <1>2, HeaderReceivedStep, HeaderErrorStep, ResponseOkStep, ResponseStep, CallFinishedStep DEF Received
<1>3. ASSUME NEW k \in Call, Caller(k) PROVE IInv'
  <2>1. k \in Thread
    BY Names
  <2>2. CASE Initialize(k) \/ Push(k) \/ StopReading(k) \/ Return(k)
    BY <2>2, InitializeStep, PushStep, StopReadingStep, ReturnStep
  <2>3. CASE Take(k) \/ Write(k) \/ Drop(k) \/ \E l \in Link : Read(k, l)
    BY <2>1, <2>3, TakeStep, WriteStep, DropStep, ReadStep
  <2> QED BY <1>1, <1>2, <1>3, <2>1, <2>2, <2>3 DEF Caller
<1>4. CASE PollThread
  <2>1. Poll \in Thread
    BY Names
  <2>2. CASE \E l \in Link : Read(Poll, l) \/ Disconnect(l)
    BY <2>1, <2>2, ReadStep, DisconnectStep
  <2>3. CASE Take(Poll) \/ Write(Poll) \/ Drop(Poll)
    BY <2>1, <2>3, TakeStep, WriteStep, DropStep
  <2> QED BY <1>1, <1>2, <1>4, <2>1, <2>2, <2>3 DEF PollThread
<1>5. CASE UserThread
  <2>1. User \in Thread
    BY Names
  <2> QED BY <1>1, <1>5, <2>1, DropStep, StopLinkStep DEF UserThread
<1>6. CASE Shutdown \/ Stop
  BY <1>6, ShutdownStep, StopStep
<1>7. CASE \E k \in Call : Find(k, registered)
  BY <1>7, FindStep
<1> QED BY <1>3, <1>4, <1>5, <1>6, <1>7 DEF Client

\* ... and so does one of the server.
LEMMA ServerNext ==
  ASSUME IInv, Server, UNCHANGED client
  PROVE  IInv'
<1>1. CASE UserSteps
  BY <1>1, RegisterStep, UnregisterStep, DropPublicationStep, DropLinksStep, RemoveCallbacksStep, UnadvertisedStep DEF UserSteps
<1>2. CASE ServerPollThread
  <2>1. CASE \E l \in Link : Header(l) \/ Request(l) \/ ClientGone(l)
    BY <2>1, HeaderStep, RequestStep, ClientGoneStep
  <2>2. CASE CheckDropped \/ Accept \/ Released \/ LockParent \/ ProcessRequest
    BY <2>2, CheckDroppedStep, AcceptStep, ReleasedStep, LockParentStep, ProcessRequestStep
  <2> QED BY <1>2, <2>1, <2>2 DEF ServerPollThread
<1>3. CASE Spinner
  BY <1>3, ServeStep, ServedStep DEF Spinner
<1> QED BY <1>1, <1>2, <1>3, AdvertiseStep, UnadvertiseStep DEF Server

-----------------------------------------------------------------------------
\* No call has been made and no service advertised: the invariant holds initially.
LEMMA InitIInv ==
  ASSUME Init
  PROVE  IInv
<1>1. /\ regime \in Regime /\ up = [l \in Link |-> <<>>] /\ down = [l \in Link |-> <<>>]
      /\ client_closed = {} /\ server_closed = {} /\ cut = {}
  BY DEF Init, WireInit
<1>2. /\ thread = [t \in Thread |-> Idle] /\ calls = [k \in Call |-> NewCall] /\ link = [l \in Link |-> NewLink]
      /\ server_link_ = None /\ links = 0 /\ service_server_links_ = {} /\ shutting_down_ = FALSE
  BY DEF Init, ClientInit
<1>3. /\ advertised = None /\ registered = FALSE /\ pubs = 0 /\ peer = [l \in Link |-> NoPeer]
      /\ pub = [p \in Pub |-> [dropped_ |-> FALSE, client_links_ |-> {}, destroyed |-> FALSE]]
      /\ callbacks = <<>> /\ serving = Nobody /\ server_poll = Nowhere /\ user = [at |-> "idle", pub |-> None]
      /\ unadvertised = {} /\ late = {} /\ broken = {}
  BY DEF Init, ServerInit
<1>4. regime.links \in Nat /\ regime.pubs \in Nat /\ 0 \in 0 .. regime.links /\ 0 \in 0 .. regime.pubs
  BY <1>1, ServiceAssumption
<1>5. WireTypes
  BY <1>1 DEF WireTypes
<1>6. ClientTypes
  <2>1. Idle \in ThreadType /\ NewCall \in CallType
    BY DEF Idle, ThreadType, Steps, Unqueued, NewCall, CallType
  <2>2. NewLink \in LinkType
    BY DEF NewLink, LinkType
  <2>3. thread \in [Thread -> ThreadType] /\ calls \in [Call -> CallType] /\ link \in [Link -> LinkType]
    BY <1>2, <2>1, <2>2
  <2>4. links \in 0 .. regime.links
    BY <1>2, <1>4
  <2>5. server_link_ \in 0 .. links
    BY <1>2 DEF None
  <2>6. service_server_links_ \subseteq 1 .. links /\ shutting_down_ \in BOOLEAN
    BY <1>2
  <2> QED BY <2>3, <2>4, <2>5, <2>6 DEF ClientTypes
<1>7. ServerTypes
  <2>1. NoPeer \in PeerType /\ [dropped_ |-> FALSE, client_links_ |-> {}, destroyed |-> FALSE] \in PubType
    BY DEF NoPeer, PeerType, PubType
  <2>2. pub \in [Pub -> PubType] /\ peer \in [Link -> PeerType]
    BY <1>3, <2>1
  <2>3. pubs \in 0 .. regime.pubs
    BY <1>3, <1>4
  <2>4. callbacks \in Seq(EntryType)
    BY <1>3
  <2>5. /\ advertised \in Pub \cup {None} /\ registered \in BOOLEAN /\ serving \in EntryType \cup {Nobody}
        /\ unadvertised \subseteq Pub /\ late \subseteq Link /\ broken \subseteq Link
    BY <1>3
  <2>6. /\ server_poll \in [at : {"idle", "check", "add", "release", "request", "process"}, pub : Pub \cup {None},
                             link : Link \cup {None}, call : Call \cup {None}]
        /\ user \in [at : UserAt, pub : Pub \cup {None}]
    BY <1>3 DEF Nowhere, UserAt
  <2> QED BY <2>2, <2>3, <2>4, <2>5, <2>6 DEF ServerTypes
<1>8. Calling
  <2>1. \A t \in Thread : thread[t] = Idle
    BY <1>2
  <2>2. \A k \in Call : calls[k] = NewCall /\ k \in Thread
    BY <1>2, Names
  <2>3. \A l \in Link : link[l] = NewLink
    BY <1>2
  <2>4. \A t \in Thread : ThreadOK(t)
    BY <2>1 DEF ThreadOK, Idle, Clearing
  <2>5. \A k \in Call : CallOK(k)
    BY <2>2 DEF CallOK, NewCall
  <2>6. \A k \in Call, l \in Link : ~Charged(k, l)
    BY <2>3, Names DEF Charged, NewLink
  <2>7. \A l \in Link : QueueOK(l) /\ DropOK(l)
    <3> SUFFICES ASSUME NEW l \in Link PROVE QueueOK(l) /\ DropOK(l)
      OBVIOUS
    <3>1. link[l].queue = <<>> /\ link[l].current = None /\ link[l].mutex = None /\ ~link[l].dropped /\ ~link[l].raced
          /\ ~link[l].header_read
      BY <2>3 DEF NewLink
    <3> QED BY <3>1 DEF QueueOK, DropOK
  <2>8. LinksMade
    <3>1. \A k \in Call : thread[k].at # "initialize"
      BY <2>1, <2>2 DEF Idle
    <3> QED BY <3>1, <2>3, <1>2 DEF LinksMade, NewLink
  <2> QED BY <2>4, <2>5, <2>6, <2>7, <2>8 DEF Calling
<1>9. \A l \in Link : Carried(l)
  <2> SUFFICES ASSUME NEW l \in Link PROVE Carried(l)
    OBVIOUS
  <2>1. /\ link[l] = NewLink /\ up[l] = <<>> /\ down[l] = <<>> /\ peer[l] = NoPeer /\ l # None
        /\ \A t \in Thread : thread[t] = Idle
    BY <1>1, <1>2, <1>3, Names
  <2>2. ~Polling(l) /\ ~Queued(l) /\ serving.link # l /\ \A t \in Thread : ~Holds(t, l)
    BY <1>3, <2>1 DEF Polling, Queued, Nowhere, Nobody, Holds, Idle
  <2>3. ~AtServer(l) /\ ~Back(l)
    BY <2>1, <2>2 DEF AtServer, Back
  <2>4. InOnePlace(l) /\ UpOK(l) /\ DownOK(l)
    BY <2>1, <2>2, <2>3 DEF InOnePlace, UpOK, DownOK
  <2>5. PeerOK(l)
    BY <2>1, <2>2, <2>3 DEF PeerOK, NoPeer
  <2>6. (\A i \in DOMAIN callbacks : EntryOK(callbacks[i], l)) /\ EntryOK(serving, l)
    BY <2>2 DEF Queued, EntryOK
  <2>7. \A t \in Thread : HolderOK(t, l) /\ WriterOK(t, l)
    BY <2>1, <2>2 DEF HolderOK, WriterOK, Idle
  <2>8. ~link[l].header_read /\ link[l].current = None
    BY <2>1 DEF NewLink
  <2> QED BY <2>4, <2>5, <2>6, <2>7, <2>8 DEF Carried
<1>10. QueuedOnce
  BY <1>3 DEF QueuedOnce
<1>11. Published
  <2>1. UserOK /\ PollOK
    BY <1>3 DEF UserOK, PollOK, Nowhere, None
  <2>2. \A p \in Pub : PubOK(p)
    BY <1>3 DEF PubOK, Past
  <2>3. \A l \in Link : ParentOK(l)
    BY <1>1, <1>3 DEF ParentOK, NoPeer, None
  <2> QED BY <2>1, <2>2, <2>3 DEF Published
<1> QED BY <1>5, <1>6, <1>7, <1>8, <1>9, <1>10, <1>11 DEF IInv, Types

\* Every step keeps the invariant.
LEMMA NextIInv ==
  ASSUME IInv, [Next]_vars
  PROVE  IInv'
<1>1. CASE Client /\ UNCHANGED server
  BY <1>1, ClientNext
<1>2. CASE Server /\ UNCHANGED client
  BY <1>2, ServerNext
<1>3. CASE \E l \in Link : Break(l)
  BY <1>3, BreakStep
<1>4. CASE UNCHANGED vars
  <2>1. UNCHANGED <<regime, up, down, client_closed, server_closed, client, server, cut>>
    BY <1>4 DEF vars, wire
  <2> QED BY <2>1, NeitherMoves DEF IInv, Types, WireTypes
<1> QED BY <1>1, <1>2, <1>3, <1>4 DEF Next

\* In every reachable state a link carries one message at most, and that is of
\* its current call; each call is charged to the link of its thread; and the
\* connections of a publication are in its list.
THEOREM Invariant == Spec => []IInv
<1> QED BY InitIInv, NextIInv, PTL DEF Spec

\* The messages and the queues are of the types that TypeOK states.
LEMMA IInvTypeOK ==
  ASSUME IInv
  PROVE  TypeOK
<1>1. WireTypes /\ ClientTypes /\ ServerTypes
  BY DEF IInv, Types
<1>2. ASSUME NEW l \in Link PROVE link[l].current \in Call \cup {None}
  BY <1>1 DEF ClientTypes, LinkType
<1>3. ASSUME NEW l \in Link PROVE ToSet(up[l]) \subseteq {<<"header", None>>} \cup ({"request"} \X Call)
  <2>1. UpOK(l)
    BY DEF IInv, Carried
  <2>2. CASE up[l] = <<>>
    BY <2>2 DEF ToSet
  <2>3. CASE up[l] = <<<<"header", None>>>>
    BY <2>3 DEF ToSet
  <2>4. CASE up[l] = <<<<"request", link[l].current>>>> /\ link[l].current # None
    BY <2>4, <1>2 DEF ToSet
  <2> QED BY <2>1, <2>2, <2>3, <2>4 DEF UpOK
<1>4. ASSUME NEW l \in Link
      PROVE  ToSet(down[l]) \subseteq {<<"header", None>>, <<"error", None>>} \cup ({"ok", "failed", "body"} \X Call)
  <2>1. DownOK(l)
    BY DEF IInv, Carried
  <2>2. CASE down[l] = <<>>
    BY <2>2 DEF ToSet
  <2>3. CASE down[l] = <<<<"header", None>>>> \/ down[l] = <<<<"error", None>>>>
    BY <2>3 DEF ToSet
  <2>4. CASE down[l] = <<<<"body", link[l].current>>>> /\ link[l].current # None
    BY <2>4, <1>2 DEF ToSet
  <2>5. ASSUME NEW o \in {"ok", "failed"}, link[l].current # None,
               down[l] = <<<<o, link[l].current>>, <<"body", link[l].current>>>>
        PROVE  ToSet(down[l]) \subseteq {<<"header", None>>, <<"error", None>>} \cup ({"ok", "failed", "body"} \X Call)
    BY <2>5, <1>2 DEF ToSet
  <2> QED BY <2>1, <2>2, <2>3, <2>4, <2>5 DEF DownOK
<1>5. WireOK
  BY <1>1, <1>3, <1>4 DEF WireOK, WireTypes
<1>6. ASSUME NEW l \in Link
      PROVE  /\ link[l].reader \in Thread \cup {None} /\ link[l].mutex \in Thread \cup {None}
             /\ link[l].current \in Call \cup {None} /\ ToSet(link[l].queue) \subseteq Call
  <2>1. link[l] \in LinkType
    BY <1>1 DEF ClientTypes
  <2>2. link[l].queue \in Seq(Call)
    BY <2>1 DEF LinkType
  <2>3. ToSet(link[l].queue) \subseteq Call
    BY <2>2 DEF ToSet
  <2> QED BY <2>1, <2>3 DEF LinkType
<1>7. ClientOK
  <2>1. ThreadType \subseteq [at : Place, link : Link \cup {None}, call : Call \cup {None}]
    <3>1. Steps \subseteq Place
      BY DEF Steps, Unqueued, Holding, Clearing, Place
    <3> QED BY <3>1 DEF ThreadType
  <2>2. thread \in [Thread -> [at : Place, link : Link \cup {None}, call : Call \cup {None}]]
    BY <1>1, <2>1 DEF ClientTypes
  <2> QED BY <1>1, <1>6, <2>2 DEF ClientOK, ClientTypes, CallType
<1>8. ServerOK
  <2>1. serving.pub \in Pub \cup {None} /\ serving.link \in Link \cup {None}
    BY <1>1 DEF ServerTypes, EntryType, Nobody
  <2>2. user.pub \in Pub \cup {None}
    BY <1>1 DEF ServerTypes
  <2>3. /\ pub \in [Pub -> [dropped_ : BOOLEAN, client_links_ : SUBSET Link, destroyed : BOOLEAN]]
        /\ peer \in [Link -> [parent : Pub \cup {None}, reading : {"none", "header", "request"}]]
    BY <1>1 DEF ServerTypes, PubType, PeerType
  <2> QED BY <1>1, <2>1, <2>2, <2>3 DEF ServerOK, ServerTypes
<1> QED BY <1>5, <1>7, <1>8 DEF TypeOK

\* The result of a call is its own.
LEMMA IInvAnswers ==
  ASSUME IInv
  PROVE  AnswersOwnRequest
<1>1. ASSUME NEW k \in Call
      PROVE  calls[k].result \in {None, k} /\ (calls[k].late => link[thread[k].link].raced)
  BY DEF IInv, Calling, CallOK
<1> QED BY <1>1 DEF AnswersOwnRequest

\* The connections of a publication that is gone are dropped, or have entered late.
LEMMA IInvNoOrphans ==
  ASSUME IInv
  PROVE  NoOrphans
<1>1. ASSUME NEW l \in Link
      PROVE  /\ peer[l].parent # None /\ pub[peer[l].parent].destroyed => Dropped(l)
             /\ peer[l].parent \in unadvertised => Dropped(l) \/ l \in late
  <2>1. ParentOK(l) /\ (peer[l].parent # None => peer[l].parent \in Pub)
    BY Numbers DEF IInv, Types, Published
  <2>2. peer[l].parent \in unadvertised => peer[l].parent # None
    BY Names DEF IInv, Types, ServerTypes
  <2>3. peer[l].parent \in Pub => PubOK(peer[l].parent)
    BY DEF IInv, Published
  <2> QED BY <2>1, <2>2, <2>3 DEF ParentOK, PubOK, Past
<1>2. \A l \in broken : Dropped(l)
  BY DEF IInv, Types, ServerTypes, Published, ParentOK
<1> QED BY <1>1, <1>2, IInvTypeOK DEF NoOrphans

\* A callback that is begun is of a publication whose connection it came by.
LEMMA ServesAccepted ==
  ASSUME IInv, Serve, serving' # Nobody
  PROVE  serving'.pub \notin unadvertised \/ serving'.link \in late
<1>1. callbacks \in Seq(EntryType) /\ callbacks # <<>> /\ serving' = Head(callbacks) /\ ~Dropped(Head(callbacks).link)
  BY DEF IInv, Types, ServerTypes, Serve, Servable
<1>2. PICK c \in EntryType : c = serving' /\ c = callbacks[1] /\ 1 \in DOMAIN callbacks /\ ~Dropped(c.link)
  <2>1. Head(callbacks) \in EntryType /\ Head(callbacks) = callbacks[1] /\ 1 \in DOMAIN callbacks
    BY <1>1
  <2> QED BY <1>1, <2>1
<1>3. PICK l \in Link : l = c.link /\ EntryOK(c, l) /\ ParentOK(l)
  <2>1. c.link \in Link
    BY DEF EntryType
  <2> QED BY <1>2, <2>1 DEF IInv, Carried, Published
<1>4. PICK p \in Pub : p = c.pub /\ p = peer[l].parent /\ p # None /\ PubOK(p)
  <2>1. c.pub \in Pub /\ c.pub = peer[l].parent
    BY <1>3 DEF EntryOK, EntryType
  <2> QED BY <2>1, Names DEF IInv, Published
<1>5. l \in pub[p].client_links_
  BY <1>2, <1>3, <1>4 DEF ParentOK
<1>6. p \in unadvertised => l \in late
  BY <1>4, <1>5 DEF PubOK, Past
<1> QED BY <1>2, <1>3, <1>4, <1>6

\* No other step begins a callback.
LEMMA OnlyServeServes ==
  ASSUME [Next]_vars, serving' # serving, serving' # Nobody
  PROVE  Serve
<1>1. CASE UNCHANGED server \/ UNCHANGED vars
  BY <1>1 DEF vars, server
<1>2. CASE Server
  <2>1. UserSteps \/ Advertise \/ Unadvertise => UNCHANGED serving
    BY DEF UserSteps, Register, Unregister, DropPublication, DropLinks, RemoveCallbacks, Unadvertised, Advertise, Unadvertise
  <2>2. ServerPollThread => UNCHANGED serving
    BY DEF ServerPollThread, Header, Request, ClientGone, CheckDropped, Accept, Released, LockParent, ProcessRequest
  <2>3. \A ok \in BOOLEAN : ~Served(ok)
    BY DEF Served
  <2> QED BY <1>2, <2>1, <2>2, <2>3 DEF Server, Spinner
<1>3. CASE \E l \in Link : Break(l)
  BY <1>3 DEF Break, server
<1> QED BY <1>1, <1>2, <1>3 DEF Next

\* A call that succeeds returns the response to its own request, whatever was
\* queued, cancelled or dropped, and none is written to the memory of a call that
\* has returned, unless a drop has overtaken it.
THEOREM AlwaysAnswersOwnRequest == Spec => []AnswersOwnRequest
<1> QED BY Invariant, IInvAnswers, PTL

\* A connection does not outlive its publication, unless it entered while that was
\* dropped, and a request that finds the publication gone is of a dropped connection.
THEOREM AlwaysNoOrphans == Spec => []NoOrphans
<1> QED BY Invariant, IInvNoOrphans, PTL

\* No callback of the service starts once unadvertiseService() has returned, unless
\* its connection entered while the publication was dropped.
THEOREM NeverCallsAfterUnadvertise == Spec => NoCallAfterUnadvertise
<1>1. IInv /\ [Next]_vars
        => [serving' # serving /\ serving' # Nobody => serving'.pub \notin unadvertised \/ serving'.link \in late]_vars
  BY OnlyServeServes, ServesAccepted
<1> QED BY <1>1, Invariant, PTL DEF Spec, NoCallAfterUnadvertise
=============================================================================
