------------------------ MODULE PublisherLinksProofs ------------------------
(* Theorems about the two users of the XML-RPC client: PublisherLinks, for any *)
(* number of publishers, updates and faults, and (second part) the calls of    *)
(* the master, XmlRpc, for any number of threads, calls and connections.       *)
(*                                                                             *)
(* What makes OnePerPublisher inductive: the user's and the XML-RPC thread     *)
(* exclude each other by shutdown_mutex_ (Threads), an answered call is in     *)
(* pending_connections_ or is just being entered there (LinkOK), and a         *)
(* publisher that is still to be asked for its port has no link, no call and   *)
(* no connection that is being made (Unserved).  No more attempts are made     *)
(* than the lists name publishers (Counted), which is what keeps them in       *)
(* Attempt.                                                                    *)
EXTENDS PublisherLinks, XmlRpc, FilterProofs, Integers, SequenceTheorems, FiniteSetTheorems, TLAPS

Subscriber == {"user", "rpc"}
Busy(t) == pc[t].at \in {"drop", "negotiate", "enter"}
Wires(t) == pc[t].at \in {"initialize", "wire", "list", "manage"}

\* Where a thread may be, and with what: publishers to ask only in pubUpdate(),
\* links whose call is done to drop or to wire.
StepsOf(t) ==
    CASE t = "user" -> {"start", "idle", "drop", "negotiate", "enter", "gone"}
      [] t = "rpc" -> {"idle", "drop", "negotiate", "enter", "initialize", "wire", "list"}
      [] t = "queue" -> {"idle", "initialize", "wire", "manage"}

Place(t) ==
    /\ pc[t].at \in StepsOf(t)
    /\ pc[t].at = "idle" => pc[t] = Idle
    /\ ~Busy(t) => pc[t].adds = {}
    /\ pc[t].at = "enter" => pc[t].attempt \in 1 .. made /\ link[pc[t].attempt].uri \in pc[t].adds
    /\ Wires(t) => pc[t].attempt \in 1 .. made /\ link[pc[t].attempt].request = "done"
    /\ \A a \in pc[t].drops : link[a].request = "done"

\* Only one thread is in the Subscription, and none but the user's once it is shut down.
Excluded ==
    /\ ~(InSubscription("user") /\ InSubscription("rpc"))
    /\ shutting_down_ => /\ pc["rpc"] = Idle
                         /\ pc["user"].at \in {"drop", "gone"} /\ pc["user"].adds = {}
    /\ pc["user"].at = "gone" => shutting_down_

Threads == Excluded /\ \A t \in Thread : Place(t)

\* What is to be asked yet of the lists that have come, and the lists to come.
Planned(t) == Cardinality(pc[t].adds) - (IF pc[t].at = "enter" THEN 1 ELSE 0)
Lists == (MaxUpdates - sent) + Len(updates) + (IF pc["user"].at = "start" THEN 1 ELSE 0)
Counted ==
    /\ Len(updates) <= sent
    /\ made + Planned("user") + Planned("rpc") + Lists * Cardinality(Publisher)
          <= (MaxUpdates + 1) * Cardinality(Publisher)

\* A call that has not been answered has no link.
NoLinkYet(l) == ~l.listed /\ ~l.dropping /\ ~l.needs_retry /\ ~l.timer /\ l.transport = "none"

Serving(a) == link[a].listed \/ Building(a)
GivenUp(a) == abandoned[link[a].uri] # "no"

LinkOK(a) ==
    /\ a > made => link[a] = Unused
    /\ a <= made => link[a].uri \in Publisher /\ link[a].request # "none"
    /\ link[a].request # "done" => NoLinkYet(link[a])
    /\ link[a].request \notin {"none", "done"} => link[a].pending \/ Entering(a)
    /\ link[a].request = "done" => shutting_down_ \/ ~link[a].pending
    /\ Entering(a) => link[a].request # "done" /\ ~link[a].pending
    /\ link[a].needs_retry /\ ~link[a].dropping => link[a].timer /\ ~Open(a)
    /\ Serving(a) /\ ~Open(a) => link[a].needs_retry \/ GivenUp(a)
    /\ Serving(a) /\ link[a].dropping => GivenUp(a)
    /\ Serving(a) => link[a].request = "done"

\* Attempt a is on its way to be a link, or is one.
Bound(a) == link[a].pending \/ link[a].listed \/ Building(a) \/ Entering(a)

OneEach == \A a, b \in Attempt : Bound(a) /\ Bound(b) /\ link[a].uri = link[b].uri => a = b

\* A publisher that is to be asked is not bound to.
Asked(t, p) == pc[t].at = "enter" /\ link[pc[t].attempt].uri = p
Unserved ==
    \A t \in Subscriber : \A p \in pc[t].adds :
       ~Asked(t, p) => \A a \in Attempt : Bound(a) => link[a].uri # p

IInv == TypeOK /\ Threads /\ Counted /\ (\A a \in Attempt : LinkOK(a)) /\ OneEach /\ Unserved

-----------------------------------------------------------------------------
(* Types *)

PcState == [at : Step, drops : SUBSET Attempt, adds : SUBSET Publisher, attempt : Attempt \cup {0}]

LEMMA Attempts == /\ Cardinality(Publisher) \in Nat /\ (MaxUpdates + 1) * Cardinality(Publisher) \in Nat
                  /\ Attempt = 1 .. (MaxUpdates + 1) * Cardinality(Publisher)
  BY FS_CardinalityType, PublisherLinksAssumption DEF Attempt

LEMMA Typed ==
    ASSUME TypeOK
    PROVE  /\ registered \subseteq Publisher
           /\ updates \in Seq(SUBSET Publisher) /\ Len(updates) \in 0 .. MaxUpdates
           /\ sent \in 0 .. MaxUpdates /\ faults \in 0 .. MaxFaults
           /\ network \in [Publisher -> {"up", "refused", "unreachable"}]
           /\ shutting_down_ \in BOOLEAN
           /\ pc \in [Thread -> PcState]
           /\ made \in Attempt \cup {0}
           /\ link \in [Attempt -> LinkState]
           /\ abandoned \in [Publisher -> {"no", "unreachable", "unheard", "refused", "call"}]
  BY LenProperties DEF TypeOK, PcState

LEMMA Types ==
    ASSUME registered' \subseteq Publisher,
           updates' \in Seq(SUBSET Publisher), Len(updates') <= MaxUpdates,
           sent' \in 0 .. MaxUpdates, faults' \in 0 .. MaxFaults,
           network' \in [Publisher -> {"up", "refused", "unreachable"}],
           shutting_down_' \in BOOLEAN,
           pc' \in [Thread -> PcState],
           made' \in Attempt \cup {0},
           link' \in [Attempt -> LinkState],
           abandoned' \in [Publisher -> {"no", "unreachable", "unheard", "refused", "call"}]
    PROVE  TypeOK'
  BY DEF TypeOK, PcState

\* A thread's new place, and a link's new state.
LEMMA Placed ==
    ASSUME NEW t \in Thread, NEW s \in PcState, pc \in [Thread -> PcState], pc' = [pc EXCEPT ![t] = s]
    PROVE  /\ pc' \in [Thread -> PcState] /\ pc'[t] = s
           /\ \A u \in Thread : u # t => pc'[u] = pc[u]
  OBVIOUS

LEMMA PlaceTypes ==
    ASSUME NEW at \in Step, NEW drops \in SUBSET Attempt, NEW adds \in SUBSET Publisher,
           NEW a \in Attempt \cup {0}
    PROVE  /\ At(at, drops, adds, a) \in PcState
           /\ At(at, drops, adds, a).at = at /\ At(at, drops, adds, a).drops = drops
           /\ At(at, drops, adds, a).adds = adds /\ At(at, drops, adds, a).attempt = a
  BY DEF At, PcState

LEMMA DroppedLink ==
    ASSUME NEW l \in LinkState, NEW held \in BOOLEAN
    PROVE  /\ Dropped(l, held) \in LinkState
           /\ Dropped(l, held).uri = l.uri /\ Dropped(l, held).request = l.request
           /\ Dropped(l, held).pending = l.pending
           /\ Dropped(l, held).dropping /\ ~Dropped(l, held).listed
<1>1. PICK ti \in BOOLEAN : ti = (l.timer /\ held)
  BY DEF LinkState
<1>2. PICK tr \in {"none", "connecting", "connected", "closed"} :
         tr = IF held /\ l.hears # "link" THEN l.transport ELSE "closed"
  BY DEF LinkState
<1>3. Dropped(l, held) = [l EXCEPT !.dropping = TRUE, !.listed = FALSE, !.timer = ti, !.transport = tr]
  BY <1>1, <1>2 DEF Dropped
<1> QED BY <1>3 DEF LinkState

LEMMA BrokenLink ==
    ASSUME NEW l \in LinkState
    PROVE  /\ OnConnectionDropped(l) \in LinkState
           /\ OnConnectionDropped(l).uri = l.uri /\ OnConnectionDropped(l).request = l.request
           /\ OnConnectionDropped(l).pending = l.pending /\ OnConnectionDropped(l).listed = l.listed
           /\ OnConnectionDropped(l).dropping = l.dropping
           /\ OnConnectionDropped(l).transport = l.transport
           /\ ~l.dropping => OnConnectionDropped(l).needs_retry /\ OnConnectionDropped(l).timer
<1> DEFINE b == [l EXCEPT !.needs_retry = TRUE, !.timer = TRUE]
<1>1. /\ b \in LinkState /\ b.uri = l.uri /\ b.request = l.request /\ b.pending = l.pending
      /\ b.listed = l.listed /\ b.dropping = l.dropping /\ b.transport = l.transport
      /\ b.needs_retry /\ b.timer
  BY DEF LinkState
<1>2. OnConnectionDropped(l) = IF l.dropping THEN l ELSE b
  BY DEF OnConnectionDropped
<1> QED BY <1>1, <1>2

-----------------------------------------------------------------------------
(* What is kept by a step that changes one link and one thread's place *)

Faults == {"no", "unreachable", "unheard", "refused", "call"}

\* Only link a and thread t change, and a keeps its publisher.
OnlyLink(a) == /\ link' \in [Attempt -> LinkState]
               /\ \A b \in Attempt : b # a => link'[b] = link[b]
               /\ link'[a].uri = link[a].uri
               /\ link[a].request = "done" => link'[a].request = "done"
OnlyThread(t) == /\ pc' \in [Thread -> PcState]
                 /\ \A u \in Thread : u # t => pc'[u] = pc[u]

\* A publisher that was given up stays so.
StayGivenUp == /\ abandoned' \in [Publisher -> Faults]
               /\ \A p \in Publisher : abandoned[p] # "no" => abandoned'[p] # "no"

\* Thread t goes on with the same publishers to ask.
SameTask(t) == /\ pc'[t].adds = pc[t].adds /\ (pc'[t].at = "enter" <=> pc[t].at = "enter")
               /\ pc[t].at = "enter" => pc'[t].attempt = pc[t].attempt
               /\ pc'[t].at # "start" /\ pc[t].at # "start"

Steady == UNCHANGED <<registered, updates, sent, network, made, shutting_down_>>

LEMMA ThreadSet == /\ Thread = {"user", "rpc", "queue"} /\ Subscriber \subseteq Thread
                   /\ "user" \in Thread /\ "rpc" \in Thread /\ "queue" \in Thread
                   /\ Subscriber = {"user", "rpc"}
  BY DEF Thread, Subscriber

\* Only what changes about a link can make it wrong.
LEMMA LinksKept ==
    ASSUME \A b \in Attempt : LinkOK(b), NEW a \in Attempt, TypeOK,
           \A b \in Attempt : b # a => link'[b] = link[b] /\ (Building(b)' <=> Building(b))
                                                          /\ (Entering(b)' <=> Entering(b)),
           made' = made, shutting_down_ => shutting_down_', StayGivenUp, LinkOK(a)'
    PROVE  \A b \in Attempt : LinkOK(b)'
<1> SUFFICES ASSUME NEW b \in Attempt, b # a PROVE LinkOK(b)'
  OBVIOUS
<1>1. link'[b] = link[b] /\ (Building(b)' <=> Building(b)) /\ (Entering(b)' <=> Entering(b)) /\ LinkOK(b)
  OBVIOUS
<1>2. (Open(b)' <=> Open(b)) /\ (Serving(b)' <=> Serving(b))
  BY <1>1 DEF Open, Serving
<1>3. Serving(b) /\ GivenUp(b) => GivenUp(b)'
  <2>1. Serving(b) => link[b].uri \in Publisher
    <3>1. made \in Nat /\ b \in Nat
      BY Attempts, Typed
    <3>2. b <= made \/ b > made
      BY <3>1
    <3>3. b > made => link[b].request # "done"
      BY <1>1 DEF LinkOK, Unused
    <3> QED BY <1>1, <3>2, <3>3 DEF LinkOK
  <2> QED BY <1>1, <2>1 DEF GivenUp, StayGivenUp
<1> QED BY <1>1, <1>2, <1>3 DEF LinkOK

\* Nobody is bound to who was not before.
LEMMA BindingsKept ==
    ASSUME OneEach, Unserved,
           \A b \in Attempt : Bound(b)' => Bound(b) /\ link'[b].uri = link[b].uri,
           \A t \in Subscriber : \A p \in pc'[t].adds :
              ~Asked(t, p)' => p \in pc[t].adds /\ ~Asked(t, p)
    PROVE  OneEach' /\ Unserved'
  BY DEF OneEach, Unserved

LEMMA Moved ==
    ASSUME IInv, NEW a \in Attempt, NEW t \in Thread, OnlyLink(a), OnlyThread(t), Steady, StayGivenUp,
           faults' \in 0 .. MaxFaults, SameTask(t), Threads', LinkOK(a)',
           \A b \in Attempt : b # a => (Building(b)' <=> Building(b)),
           link'[a].pending \/ link'[a].listed \/ Building(a)' => Bound(a)
    PROVE  IInv'
<1>1. TypeOK /\ Threads /\ Counted /\ (\A b \in Attempt : LinkOK(b)) /\ OneEach /\ Unserved
  BY DEF IInv
<1>2. TypeOK'
  BY <1>1, Typed, Types DEF OnlyLink, OnlyThread, Steady, StayGivenUp, Faults
<1>3. \A u \in Thread : /\ pc'[u].adds = pc[u].adds /\ (pc'[u].at = "enter" <=> pc[u].at = "enter")
                        /\ pc[u].at = "enter" => pc'[u].attempt = pc[u].attempt
                        /\ pc'[u].at = "start" <=> pc[u].at = "start"
  BY DEF OnlyThread, SameTask
<1>4. Counted'
  <2>1. /\ pc'["user"].adds = pc["user"].adds /\ (pc'["user"].at = "enter" <=> pc["user"].at = "enter")
        /\ pc'["rpc"].adds = pc["rpc"].adds /\ (pc'["rpc"].at = "enter" <=> pc["rpc"].at = "enter")
        /\ pc'["user"].at = "start" <=> pc["user"].at = "start"
    BY <1>3, ThreadSet
  <2>2. Planned("user")' = Planned("user") /\ Planned("rpc")' = Planned("rpc") /\ Lists' = Lists
    BY <2>1 DEF Planned, Lists, Steady
  <2> QED BY <1>1, <2>2 DEF Counted, Steady
<1>5. \A b \in Attempt : (Entering(b)' <=> Entering(b)) /\ link'[b].uri = link[b].uri
  BY <1>3 DEF Entering, OnlyLink
<1>6. \A b \in Attempt : LinkOK(b)'
  BY <1>1, <1>5, LinksKept DEF OnlyLink, Steady
<1>7. OneEach' /\ Unserved'
  <2>1. \A b \in Attempt : Bound(b)' => Bound(b) /\ link'[b].uri = link[b].uri
    <3> SUFFICES ASSUME NEW b \in Attempt, Bound(b)' PROVE Bound(b)
      BY <1>5
    <3>1. CASE b = a
      BY <1>5, <3>1 DEF Bound
    <3>2. CASE b # a
      BY <1>5, <3>2 DEF Bound, OnlyLink
    <3> QED BY <3>1, <3>2
  <2>2. ASSUME NEW u \in Subscriber, NEW p \in pc'[u].adds, ~Asked(u, p)'
        PROVE  p \in pc[u].adds /\ ~Asked(u, p)
    <3>1. u \in Thread
      BY ThreadSet
    <3>2. p \in pc[u].adds
      BY <1>3, <3>1
    <3>3. ASSUME Asked(u, p) PROVE FALSE
      <4>1. pc[u].at = "enter" /\ link[pc[u].attempt].uri = p /\ pc'[u].at = "enter"
            /\ pc'[u].attempt = pc[u].attempt
        BY <1>3, <3>1, <3>3 DEF Asked
      <4>2. pc[u].attempt \in Attempt
        BY <1>1, <3>1, <4>1, Attempts, Typed DEF Threads, Place
      <4> QED BY <1>5, <2>2, <4>1, <4>2 DEF Asked
    <3> QED BY <3>2, <3>3
  <2> QED BY <1>1, <2>1, <2>2, BindingsKept
<1> QED BY <1>1, <1>2, <1>4, <1>6, <1>7 DEF IInv

\* No publisher's link forgets whose it is, or that its call is done.
LEMMA LinksAgree ==
    ASSUME NEW a \in Attempt, OnlyLink(a)
    PROVE  \A b \in Attempt : /\ link'[b].uri = link[b].uri
                              /\ link[b].request = "done" => link'[b].request = "done"
  BY DEF OnlyLink

\* The other threads stay where they are.
LEMMA ThreadsMove ==
    ASSUME IInv, NEW a \in Attempt, NEW t \in Thread, OnlyLink(a), OnlyThread(t), Steady,
           Place(t)', Excluded'
    PROVE  Threads'
<1> SUFFICES ASSUME NEW u \in Thread, u # t PROVE Place(u)'
  BY DEF Threads
<1>1. pc \in [Thread -> PcState] /\ made \in Attempt \cup {0} /\ Place(u) /\ pc'[u] = pc[u] /\ made' = made
  BY Typed DEF IInv, Threads, OnlyThread, Steady
<1>2. (Busy(u)' <=> Busy(u)) /\ (Wires(u)' <=> Wires(u))
  BY <1>1 DEF Busy, Wires
<1>3. pc[u].drops \subseteq Attempt /\ (pc[u].attempt \in 1 .. made => pc[u].attempt \in Attempt)
  BY <1>1, Attempts DEF PcState
<1>4. \A b \in Attempt : /\ link'[b].uri = link[b].uri
                         /\ link[b].request = "done" => link'[b].request = "done"
  BY LinksAgree
<1>5. pc[u].at = "enter" => pc'[u].attempt \in 1 .. made' /\ link'[pc'[u].attempt].uri \in pc'[u].adds
  BY <1>1, <1>3, <1>4 DEF Place
<1>6. Wires(u) => pc'[u].attempt \in 1 .. made' /\ link'[pc'[u].attempt].request = "done"
  BY <1>1, <1>3, <1>4 DEF Place
<1>7. \A b \in pc'[u].drops : link'[b].request = "done"
  BY <1>1, <1>3, <1>4 DEF Place
<1> QED BY <1>1, <1>2, <1>5, <1>6, <1>7 DEF Place

LEMMA Alone ==
    ASSUME IInv, NEW a \in Attempt, OnlyLink(a), pc' = pc, Steady, StayGivenUp,
           faults' \in 0 .. MaxFaults, LinkOK(a)', link'[a].pending \/ link'[a].listed => Bound(a)
    PROVE  IInv'
<1>1. pc \in [Thread -> PcState] /\ made \in Attempt \cup {0} /\ Excluded /\ \A u \in Thread : Place(u)
  BY Typed DEF IInv, Threads
<1>2. \A u \in Thread : OnlyThread(u)
  BY <1>1 DEF OnlyThread
<1>3. SameTask("queue")
  BY <1>1, ThreadSet DEF SameTask, Place, StepsOf
<1>4. \A b \in Attempt : Building(b)' <=> Building(b)
  BY DEF Building
<1>5. Excluded'
  BY <1>1 DEF Excluded, InSubscription, Steady
<1>6. Place("queue")'
  <2>1. (Busy("queue")' <=> Busy("queue")) /\ (Wires("queue")' <=> Wires("queue")) /\ made' = made
    BY DEF Busy, Wires, Steady
  <2>2. /\ pc["queue"].attempt \in 1 .. made => pc["queue"].attempt \in Attempt
        /\ pc["queue"].drops \subseteq Attempt
    BY <1>1, Attempts, ThreadSet DEF PcState
  <2> QED BY <1>1, <2>1, <2>2, LinksAgree, ThreadSet DEF Place
<1>7. Threads'
  BY <1>2, <1>5, <1>6, ThreadSet, ThreadsMove
<1>8. Building(a)' => Bound(a)
  BY <1>4 DEF Bound
<1> QED BY <1>2, <1>3, <1>4, <1>7, <1>8, ThreadSet, Moved

-----------------------------------------------------------------------------
(* The network, the publishers and the calls *)

\* What a step that leaves the thread's places alone leaves alone about a link.
LEMMA PlacesKept ==
    ASSUME pc' = pc, NEW a \in Attempt
    PROVE  (Building(a)' <=> Building(a)) /\ (Entering(a)' <=> Entering(a))
  BY DEF Building, Entering

LEMMA LinkFacts ==
    ASSUME IInv, NEW a \in Attempt
    PROVE  /\ link[a] \in LinkState /\ LinkOK(a) /\ link \in [Attempt -> LinkState]
           /\ abandoned \in [Publisher -> Faults] /\ faults \in 0 .. MaxFaults
           /\ a \in Nat /\ made \in Nat /\ (a > made \/ a <= made)
           /\ link[a].request # "none" => a <= made /\ link[a].uri \in Publisher
           /\ link[a].transport # "none" => link[a].request = "done"
<1>1. /\ link \in [Attempt -> LinkState] /\ abandoned \in [Publisher -> Faults] /\ LinkOK(a)
      /\ faults \in 0 .. MaxFaults /\ made \in Attempt \cup {0}
  BY Typed DEF IInv, Faults
<1>2. a \in Nat /\ made \in Nat
  BY <1>1, Attempts
<1>3. link[a].request # "none" => a <= made /\ link[a].uri \in Publisher
  BY <1>1, <1>2 DEF LinkOK, Unused
<1> QED BY <1>1, <1>2, <1>3 DEF LinkOK, NoLinkYet

LEMMA ConnectedKept ==
    ASSUME IInv, NEW a \in Attempt, Connected(a) PROVE IInv'
<1> DEFINE l == [link[a] EXCEPT !.transport = "connected"]
<1>1. /\ link[a] \in LinkState /\ LinkOK(a) /\ link \in [Attempt -> LinkState]
      /\ abandoned \in [Publisher -> Faults] /\ faults \in 0 .. MaxFaults
      /\ link[a].transport = "connecting" /\ link[a].request = "done"
  BY LinkFacts DEF Connected
<1>2. /\ l \in LinkState /\ l.transport = "connected" /\ l.uri = link[a].uri /\ l.request = link[a].request
      /\ l.pending = link[a].pending /\ l.listed = link[a].listed /\ l.dropping = link[a].dropping
      /\ l.needs_retry = link[a].needs_retry /\ l.timer = link[a].timer
  BY <1>1 DEF LinkState
<1>3. /\ link' = [link EXCEPT ![a] = l] /\ pc' = pc /\ abandoned' = abandoned /\ faults' = faults
      /\ Steady
  BY DEF Connected, external, Steady
<1> HIDE DEF l
<1>4. OnlyLink(a) /\ link'[a] = l /\ StayGivenUp
  BY <1>1, <1>2, <1>3 DEF OnlyLink, StayGivenUp
<1>5. LinkOK(a)'
  BY <1>1, <1>2, <1>3, <1>4, PlacesKept DEF LinkOK, Serving, Open, GivenUp, Steady, Unused
<1> QED BY <1>1, <1>2, <1>3, <1>4, <1>5, Alone DEF Bound

LEMMA PublisherAnswersKept ==
    ASSUME IInv, NEW a \in Attempt, PublisherAnswers(a) PROVE IInv'
<1> DEFINE l == [link[a] EXCEPT !.header = IF link[a].uri \in registered THEN "accepted" ELSE "refused"]
<1>1. /\ link[a] \in LinkState /\ LinkOK(a) /\ link \in [Attempt -> LinkState]
      /\ abandoned \in [Publisher -> Faults] /\ faults \in 0 .. MaxFaults
      /\ link[a].transport = "connected" /\ link[a].request = "done"
  BY LinkFacts DEF PublisherAnswers
<1>2. /\ l \in LinkState /\ l.uri = link[a].uri /\ l.pending = link[a].pending
      /\ l.request = link[a].request /\ l.transport = link[a].transport
      /\ l.listed = link[a].listed /\ l.dropping = link[a].dropping /\ l.needs_retry = link[a].needs_retry /\ l.timer = link[a].timer
  BY <1>1 DEF LinkState
<1>3. /\ link' = [link EXCEPT ![a] = l] /\ pc' = pc /\ faults' \in 0 .. MaxFaults /\ Steady
      /\ abandoned' = abandoned
  BY <1>1 DEF PublisherAnswers, external, Steady
<1> HIDE DEF l
<1>4. OnlyLink(a) /\ link'[a] = l /\ StayGivenUp
  BY <1>1, <1>2, <1>3 DEF OnlyLink, StayGivenUp, Faults
<1>5. LinkOK(a)'
  BY <1>1, <1>2, <1>3, <1>4, PlacesKept DEF LinkOK, NoLinkYet, Serving, Open, GivenUp, Steady, Unused
<1> QED BY <1>1, <1>2, <1>3, <1>4, <1>5, Alone DEF Bound

LEMMA OnHeaderReceivedKept ==
    ASSUME IInv, NEW a \in Attempt, OnHeaderReceived(a) PROVE IInv'
<1> DEFINE l == [link[a] EXCEPT !.header = "received", !.timer = FALSE]
<1>1. /\ link[a] \in LinkState /\ LinkOK(a) /\ link \in [Attempt -> LinkState]
      /\ abandoned \in [Publisher -> Faults] /\ faults \in 0 .. MaxFaults
      /\ link[a].transport = "connected" /\ link[a].request = "done"
  BY LinkFacts DEF OnHeaderReceived
<1>2. /\ l \in LinkState /\ l.uri = link[a].uri /\ l.pending = link[a].pending
      /\ l.request = link[a].request /\ l.transport = link[a].transport
      /\ l.listed = link[a].listed /\ l.dropping = link[a].dropping /\ l.needs_retry = link[a].needs_retry
  BY <1>1 DEF LinkState
<1>3. /\ link' = [link EXCEPT ![a] = l] /\ pc' = pc /\ faults' \in 0 .. MaxFaults /\ Steady
      /\ abandoned' = abandoned
  BY <1>1 DEF OnHeaderReceived, external, Steady
<1> HIDE DEF l
<1>4. OnlyLink(a) /\ link'[a] = l /\ StayGivenUp
  BY <1>1, <1>2, <1>3 DEF OnlyLink, StayGivenUp, Faults
<1>5. LinkOK(a)'
  BY <1>1, <1>2, <1>3, <1>4, PlacesKept DEF LinkOK, NoLinkYet, Serving, Open, GivenUp, Steady, Unused
<1> QED BY <1>1, <1>2, <1>3, <1>4, <1>5, Alone DEF Bound

LEMMA WatchCallKept ==
    ASSUME IInv, NEW a \in Attempt, WatchCall(a) PROVE IInv'
<1> DEFINE l == [link[a] EXCEPT !.request = "sent"]
<1>1. /\ link[a] \in LinkState /\ LinkOK(a) /\ link \in [Attempt -> LinkState]
      /\ abandoned \in [Publisher -> Faults] /\ faults \in 0 .. MaxFaults
      /\ link[a].request = "added"
  BY LinkFacts DEF WatchCall
<1>2. /\ l \in LinkState /\ l.uri = link[a].uri /\ l.pending = link[a].pending
      /\ l.request = "sent" /\ l.transport = link[a].transport
      /\ l.listed = link[a].listed /\ l.dropping = link[a].dropping /\ l.needs_retry = link[a].needs_retry /\ l.timer = link[a].timer
  BY <1>1 DEF LinkState
<1>3. /\ link' = [link EXCEPT ![a] = l] /\ pc' = pc /\ faults' \in 0 .. MaxFaults /\ Steady
      /\ abandoned' = abandoned
  BY <1>1 DEF WatchCall, external, Steady
<1> HIDE DEF l
<1>4. OnlyLink(a) /\ link'[a] = l /\ StayGivenUp
  BY <1>1, <1>2, <1>3 DEF OnlyLink, StayGivenUp, Faults
<1>5. LinkOK(a)'
  BY <1>1, <1>2, <1>3, <1>4, PlacesKept DEF LinkOK, NoLinkYet, Serving, Open, GivenUp, Steady, Unused
<1> QED BY <1>1, <1>2, <1>3, <1>4, <1>5, Alone DEF Bound

LEMMA CallAnsweredKept ==
    ASSUME IInv, NEW a \in Attempt, CallAnswered(a) PROVE IInv'
<1> DEFINE l == [link[a] EXCEPT !.request = IF link[a].uri \in registered THEN "answered" ELSE "denied"]
<1>1. /\ link[a] \in LinkState /\ LinkOK(a) /\ link \in [Attempt -> LinkState]
      /\ abandoned \in [Publisher -> Faults] /\ faults \in 0 .. MaxFaults
      /\ link[a].request = "sent"
  BY LinkFacts DEF CallAnswered
<1>2. /\ l \in LinkState /\ l.uri = link[a].uri /\ l.pending = link[a].pending
      /\ l.request \in {"answered", "denied"} /\ l.transport = link[a].transport
      /\ l.listed = link[a].listed /\ l.dropping = link[a].dropping /\ l.needs_retry = link[a].needs_retry /\ l.timer = link[a].timer
  BY <1>1 DEF LinkState
<1>3. /\ link' = [link EXCEPT ![a] = l] /\ pc' = pc /\ faults' \in 0 .. MaxFaults /\ Steady
      /\ abandoned' = abandoned
  BY <1>1 DEF CallAnswered, external, Steady
<1> HIDE DEF l
<1>4. OnlyLink(a) /\ link'[a] = l /\ StayGivenUp
  BY <1>1, <1>2, <1>3 DEF OnlyLink, StayGivenUp, Faults
<1>5. LinkOK(a)'
  BY <1>1, <1>2, <1>3, <1>4, PlacesKept DEF LinkOK, NoLinkYet, Serving, Open, GivenUp, Steady, Unused
<1> QED BY <1>1, <1>2, <1>3, <1>4, <1>5, Alone DEF Bound

LEMMA CallFailedKept ==
    ASSUME IInv, NEW a \in Attempt, CallFailed(a) PROVE IInv'
<1> DEFINE l == [link[a] EXCEPT !.request = "failed"]
<1>1. /\ link[a] \in LinkState /\ LinkOK(a) /\ link \in [Attempt -> LinkState]
      /\ abandoned \in [Publisher -> Faults] /\ faults \in 0 .. MaxFaults
      /\ link[a].request = "sent" /\ link[a].uri \in Publisher
  BY LinkFacts DEF CallFailed
<1>2. /\ l \in LinkState /\ l.uri = link[a].uri /\ l.pending = link[a].pending
      /\ l.request = "failed" /\ l.transport = link[a].transport
      /\ l.listed = link[a].listed /\ l.dropping = link[a].dropping /\ l.needs_retry = link[a].needs_retry /\ l.timer = link[a].timer
  BY <1>1 DEF LinkState
<1>3. /\ link' = [link EXCEPT ![a] = l] /\ pc' = pc /\ faults' \in 0 .. MaxFaults /\ Steady
      /\ abandoned' = [abandoned EXCEPT ![link[a].uri] = "call"]
  BY <1>1, PublisherLinksAssumption DEF CallFailed, external, Steady
<1> HIDE DEF l
<1>4. OnlyLink(a) /\ link'[a] = l /\ StayGivenUp
  BY <1>1, <1>2, <1>3 DEF OnlyLink, StayGivenUp, Faults
<1>5. LinkOK(a)'
  BY <1>1, <1>2, <1>3, <1>4, PlacesKept DEF LinkOK, NoLinkYet, Serving, Open, GivenUp, Steady, Unused
<1> QED BY <1>1, <1>2, <1>3, <1>4, <1>5, Alone DEF Bound

LEMMA OnHeaderRefusedKept ==
    ASSUME IInv, NEW a \in Attempt, OnHeaderRefused(a) PROVE IInv'
<1> DEFINE l == Dropped(link[a], Held(a))
<1>1. /\ link[a] \in LinkState /\ LinkOK(a) /\ link \in [Attempt -> LinkState]
      /\ abandoned \in [Publisher -> Faults] /\ faults \in 0 .. MaxFaults
      /\ link[a].transport = "connected" /\ link[a].request = "done" /\ link[a].uri \in Publisher /\ Held(a) \in BOOLEAN
  BY LinkFacts DEF OnHeaderRefused, Held, InRetry, Building
<1>2. /\ l \in LinkState /\ l.uri = link[a].uri /\ l.pending = link[a].pending
      /\ l.request = link[a].request /\ l.dropping /\ ~l.listed
  BY <1>1, DroppedLink DEF l
<1>3. /\ link' = [link EXCEPT ![a] = l] /\ pc' = pc /\ faults' \in 0 .. MaxFaults /\ Steady
      /\ abandoned' = [abandoned EXCEPT ![link[a].uri] = "refused"]
  BY <1>1 DEF OnHeaderRefused, external, Steady
<1> HIDE DEF l
<1>4. OnlyLink(a) /\ link'[a] = l /\ StayGivenUp
  BY <1>1, <1>2, <1>3 DEF OnlyLink, StayGivenUp, Faults
<1>5. LinkOK(a)'
  BY <1>1, <1>2, <1>3, <1>4, PlacesKept DEF LinkOK, NoLinkYet, Serving, Open, GivenUp, Steady, Unused
<1> QED BY <1>1, <1>2, <1>3, <1>4, <1>5, Alone DEF Bound

\* The link hears of the break, and will retry, or it is given up.
LEMMA DisconnectedKept ==
    ASSUME IInv, NEW a \in Attempt, Disconnected(a) PROVE IInv'
<1> DEFINE closed == [link[a] EXCEPT !.transport = "closed", !.header = "none"]
           l == IF link[a].hears = "link" THEN OnConnectionDropped(closed) ELSE closed
<1>1. /\ link[a] \in LinkState /\ LinkOK(a) /\ link \in [Attempt -> LinkState]
      /\ abandoned \in [Publisher -> Faults] /\ faults \in 0 .. MaxFaults
      /\ link[a].request = "done" /\ link[a].uri \in Publisher /\ Open(a)
  BY LinkFacts DEF Disconnected, Open
<1>2. /\ closed \in LinkState /\ closed.uri = link[a].uri /\ closed.request = link[a].request
      /\ closed.pending = link[a].pending /\ closed.listed = link[a].listed
      /\ closed.dropping = link[a].dropping /\ closed.transport = "closed"
      /\ closed.needs_retry = link[a].needs_retry /\ closed.timer = link[a].timer
  BY <1>1 DEF LinkState
<1>3. /\ link' = [link EXCEPT ![a] = l] /\ pc' = pc /\ faults' \in 0 .. MaxFaults /\ Steady
      /\ abandoned' = IF link[a].hears = "link" THEN abandoned ELSE [abandoned EXCEPT ![link[a].uri] = "unheard"]
  BY <1>1, PublisherLinksAssumption DEF Disconnected, external, Steady
<1> HIDE DEF closed
<1>4. /\ l \in LinkState /\ l.uri = link[a].uri /\ l.request = "done"
      /\ l.pending = link[a].pending /\ l.listed = link[a].listed
      /\ l.dropping = link[a].dropping /\ l.transport = "closed"
      /\ link[a].hears = "link" /\ ~l.dropping => l.needs_retry /\ l.timer
      /\ link[a].hears # "link" \/ l.dropping => l.needs_retry = link[a].needs_retry
  BY <1>1, <1>2, BrokenLink DEF OnConnectionDropped
<1> HIDE DEF l
<1>5. OnlyLink(a) /\ link'[a] = l /\ StayGivenUp
  BY <1>1, <1>3, <1>4 DEF OnlyLink, StayGivenUp, Faults
<1>6. link[a].hears # "link" => GivenUp(a)'
  BY <1>1, <1>3, <1>4, <1>5 DEF GivenUp
<1>7. GivenUp(a) => GivenUp(a)'
  BY <1>1, <1>4, <1>5 DEF GivenUp, StayGivenUp
<1>8. LinkOK(a)'
  BY <1>1, <1>3, <1>4, <1>5, <1>6, <1>7, PlacesKept DEF LinkOK, NoLinkYet, Serving, Open, Steady, Unused
<1> QED BY <1>1, <1>3, <1>4, <1>5, <1>8, Alone DEF Bound

-----------------------------------------------------------------------------
(* The XML-RPC thread, with an answer *)

\* With the mutex free nobody enters a call or makes a link.
LEMMA NobodyInside ==
    ASSUME IInv, pc["rpc"] = Idle, MutexFree
    PROVE  /\ \A a \in Attempt : ~Entering(a) /\ ~Building(a)
           /\ ~shutting_down_ => ~InSubscription("user")
<1>1. Excluded /\ \A t \in Thread : pc[t].at \in StepsOf(t)
  BY DEF IInv, Threads, Place
<1>2. ~shutting_down_ => ~InSubscription("user")
  BY DEF MutexFree
<1>3. pc["rpc"].at = "idle" /\ pc["user"].at # "enter" /\ pc["queue"].at # "enter"
  BY <1>1, <1>2, ThreadSet DEF Idle, At, StepsOf, InSubscription, Excluded
<1> QED BY <1>2, <1>3, ThreadSet DEF Entering, Building

LEMMA DoneKept ==
    ASSUME IInv, NEW a \in Attempt, PendingConnectionDone(a) PROVE IInv'
<1> DEFINE l == link[a]
           done == [l EXCEPT !.request = "done"]
           erased == [l EXCEPT !.request = "done", !.pending = FALSE]
           c == [erased EXCEPT !.transport = "connecting", !.hears = "nobody", !.header = "none"]
<1>1. /\ l \in LinkState /\ LinkOK(a) /\ link \in [Attempt -> LinkState]
      /\ abandoned \in [Publisher -> Faults] /\ faults \in 0 .. MaxFaults
      /\ l.request \in {"answered", "denied"} /\ l.uri \in Publisher /\ a <= made /\ a \in Nat /\ made \in Nat
      /\ pc["rpc"] = Idle /\ MutexFree /\ shutting_down_ \in BOOLEAN
  BY LinkFacts, Typed DEF PendingConnectionDone, IInv
<1>2. ~Entering(a) /\ ~Building(a) /\ (~shutting_down_ => ~InSubscription("user"))
  BY <1>1, NobodyInside
<1>3. NoLinkYet(l) /\ l.pending
  BY <1>1, <1>2 DEF LinkOK
<1>4. /\ done \in LinkState /\ done.uri = l.uri /\ done.request = "done" /\ done.pending = l.pending
      /\ NoLinkYet(done)
  BY <1>1, <1>3 DEF LinkState, NoLinkYet
<1>5. /\ erased \in LinkState /\ erased.uri = l.uri /\ erased.request = "done" /\ ~erased.pending
      /\ NoLinkYet(erased)
  BY <1>1, <1>3 DEF LinkState, NoLinkYet
<1>6. /\ c \in LinkState /\ c.uri = l.uri /\ c.request = "done" /\ ~c.pending /\ ~c.listed
      /\ ~c.dropping /\ ~c.needs_retry /\ c.transport = "connecting"
  BY <1>5 DEF LinkState, NoLinkYet
<1>7. faults' \in 0 .. MaxFaults /\ Steady
  BY <1>1 DEF PendingConnectionDone, external, Steady
<1>8. Bound(a)
  BY <1>3 DEF Bound
<1>9. ASSUME NEW k \in LinkState, k.uri = l.uri, k.request = "done", NoLinkYet(k), k.pending => shutting_down_,
             link' = [link EXCEPT ![a] = k], pc' = pc, StayGivenUp
      PROVE  IInv'
  <2>1. OnlyLink(a) /\ link'[a] = k
    BY <1>1, <1>9 DEF OnlyLink
  <2>2. LinkOK(a)'
    BY <1>1, <1>2, <1>7, <1>9, <2>1, PlacesKept DEF LinkOK, NoLinkYet, Serving, Steady, Unused
  <2> QED BY <1>7, <1>8, <1>9, <2>1, <2>2, Alone
<1>10. CASE shutting_down_
  <2>1. link' = [link EXCEPT ![a] = done] /\ pc' = pc /\ abandoned' = abandoned
    BY <1>10 DEF PendingConnectionDone
  <2> HIDE DEF done
  <2>2. StayGivenUp
    BY <1>1, <2>1 DEF StayGivenUp
  <2> QED BY <1>4, <1>9, <1>10, <2>1, <2>2
<1>11. CASE ~shutting_down_ /\ (l.request = "denied" \/ network[l.uri] = "unreachable")
  <2>1. link' = [link EXCEPT ![a] = erased] /\ pc' = pc
        /\ \E w \in {"refused", "unreachable"} : abandoned' = [abandoned EXCEPT ![l.uri] = w]
    BY <1>1, <1>11 DEF PendingConnectionDone
  <2> HIDE DEF erased
  <2>2. StayGivenUp
    BY <1>1, <2>1 DEF StayGivenUp, Faults
  <2> QED BY <1>5, <1>9, <2>1, <2>2
<1>12. CASE ~shutting_down_ /\ l.request = "answered" /\ network[l.uri] # "unreachable"
  <2>1. /\ link' = [link EXCEPT ![a] = c]
        /\ pc' = [pc EXCEPT !["rpc"] = At("initialize", {}, {}, a)] /\ abandoned' = abandoned
    BY <1>12 DEF PendingConnectionDone, Connecting
  <2> HIDE DEF c
  <2>2. OnlyLink(a) /\ link'[a] = c /\ StayGivenUp
    BY <1>1, <1>6, <2>1 DEF OnlyLink, StayGivenUp
  <2>3. pc'["rpc"].at = "initialize" /\ pc'["rpc"].drops = {} /\ pc'["rpc"].adds = {} /\ pc'["rpc"].attempt = a
        /\ OnlyThread("rpc")
    <3>1. "initialize" \in Step /\ {} \in SUBSET Attempt /\ {} \in SUBSET Publisher /\ a \in Attempt \cup {0}
      BY DEF Step
    <3>2. pc \in [Thread -> PcState] /\ At("initialize", {}, {}, a) \in PcState
      BY <3>1, PlaceTypes, Typed DEF IInv
    <3>3. /\ pc' \in [Thread -> PcState] /\ pc'["rpc"] = At("initialize", {}, {}, a)
          /\ \A u \in Thread : u # "rpc" => pc'[u] = pc[u]
      BY <2>1, <3>2, ThreadSet, Placed
    <3> QED BY <3>1, <3>3, PlaceTypes DEF OnlyThread
  <2>4. Excluded'
    BY <1>2, <1>7, <1>12, <2>3, ThreadSet DEF Excluded, InSubscription, OnlyThread, Steady, IInv, Threads
  <2>5. Place("rpc")'
    <3>1. a \in 1 .. made
      BY <1>1, Attempts
    <3> QED BY <1>6, <1>7, <2>2, <2>3, <3>1 DEF Place, StepsOf, Busy, Wires, Steady
  <2>6. Threads'
    BY <1>7, <2>2, <2>3, <2>4, <2>5, ThreadSet, ThreadsMove
  <2>7. SameTask("rpc")
    BY <1>1, <2>3 DEF SameTask, Idle, At
  <2>8. \A b \in Attempt : (Building(b)' <=> b = a) /\ ~Building(b) /\ ~Entering(b)'
    <3>1. \A b \in Attempt : ~Building(b) /\ ~Entering(b)
      BY <1>1, NobodyInside
    <3> QED BY <2>3, <3>1, ThreadSet DEF Building, Entering, OnlyThread
  <2>9. LinkOK(a)'
    BY <1>1, <1>6, <1>7, <2>2, <2>8 DEF LinkOK, NoLinkYet, Open, Steady, Unused
  <2> QED BY <1>7, <1>8, <2>2, <2>3, <2>6, <2>7, <2>8, <2>9, ThreadSet, Moved
<1> QED BY <1>1, <1>10, <1>11, <1>12

-----------------------------------------------------------------------------
(* A link is wired, retried, listed and dropped *)

LEMMA AtMoves ==
    ASSUME pc \in [Thread -> PcState], NEW t \in Thread, NEW s \in Step, pc' = [pc EXCEPT ![t].at = s]
    PROVE  /\ OnlyThread(t) /\ pc'[t].at = s /\ pc'[t].drops = pc[t].drops /\ pc'[t].adds = pc[t].adds
           /\ pc'[t].attempt = pc[t].attempt
<1>1. pc'[t] = [pc[t] EXCEPT !.at = s] /\ pc[t] \in PcState
  OBVIOUS
<1>2. /\ pc'[t] \in PcState /\ pc'[t].at = s /\ pc'[t].drops = pc[t].drops /\ pc'[t].adds = pc[t].adds
      /\ pc'[t].attempt = pc[t].attempt
  BY <1>1 DEF PcState
<1> QED BY <1>2 DEF OnlyThread

\* What a thread that is wiring a link knows of it.
LEMMA WiringFacts ==
    ASSUME IInv, NEW t \in Thread, Wires(t), NEW a, a = pc[t].attempt
    PROVE  /\ a \in Attempt /\ a \in 1 .. made /\ link[a] \in LinkState /\ LinkOK(a)
           /\ link \in [Attempt -> LinkState] /\ link[a].request = "done" /\ link[a].uri \in Publisher
           /\ pc \in [Thread -> PcState] /\ abandoned \in [Publisher -> Faults] /\ faults \in 0 .. MaxFaults
           /\ Place(t) /\ Excluded /\ ~Entering(a) /\ pc[t].adds = {} /\ t \in {"rpc", "queue"}
           /\ pc[t].drops \subseteq Attempt
<1>1. pc \in [Thread -> PcState] /\ made \in Attempt \cup {0} /\ Place(t) /\ Excluded
  BY Typed DEF IInv, Threads
<1>2. a \in 1 .. made /\ link[a].request = "done" /\ t \in {"rpc", "queue"} /\ pc[t].adds = {}
  BY <1>1, ThreadSet DEF Place, Wires, Busy, StepsOf
<1>3. a \in Attempt
  BY <1>1, <1>2, Attempts
<1>4. link[a].request # "none"
  BY <1>2
<1>5. LinkOK(a) /\ link[a] \in LinkState /\ link \in [Attempt -> LinkState] /\ link[a].uri \in Publisher
      /\ abandoned \in [Publisher -> Faults] /\ faults \in 0 .. MaxFaults
  BY <1>3, <1>4, LinkFacts
<1>6. ~Entering(a)
  BY <1>2, <1>5 DEF LinkOK
<1> QED BY <1>1, <1>2, <1>3, <1>5, <1>6 DEF PcState

\* Thread t, which wires link a, goes on to step s, and only who hears of a changes.
LEMMA WiresOn ==
    ASSUME IInv, NEW t \in Thread, Wires(t), NEW a, a = pc[t].attempt, NEW s \in {"wire", "list", "manage"},
           s \in StepsOf(t), NEW h \in {"nobody", "connection", "link"},
           link' = [link EXCEPT ![a].hears = h], pc' = [pc EXCEPT ![t].at = s],
           UNCHANGED <<external, shutting_down_, made, abandoned>>
    PROVE  IInv'
<1> DEFINE l == [link[a] EXCEPT !.hears = h]
<1>1. /\ a \in Attempt /\ a \in 1 .. made /\ link[a] \in LinkState /\ LinkOK(a)
      /\ link \in [Attempt -> LinkState] /\ link[a].request = "done"
      /\ pc \in [Thread -> PcState] /\ abandoned \in [Publisher -> Faults] /\ faults \in 0 .. MaxFaults
      /\ Place(t) /\ Excluded /\ ~Entering(a) /\ pc[t].adds = {} /\ t \in {"rpc", "queue"}
      /\ pc[t].drops \subseteq Attempt
  BY WiringFacts
<1>2. /\ l \in LinkState /\ l.uri = link[a].uri /\ l.request = link[a].request /\ l.pending = link[a].pending
      /\ l.listed = link[a].listed /\ l.dropping = link[a].dropping /\ l.needs_retry = link[a].needs_retry
      /\ l.timer = link[a].timer /\ l.transport = link[a].transport
  BY <1>1 DEF LinkState
<1>3. /\ link' = [link EXCEPT ![a] = l] /\ faults' \in 0 .. MaxFaults /\ Steady /\ abandoned' = abandoned
  BY <1>1 DEF external, Steady
<1> HIDE DEF l
<1>4. OnlyLink(a) /\ link'[a] = l /\ StayGivenUp
  BY <1>1, <1>2, <1>3 DEF OnlyLink, StayGivenUp
<1>5. /\ OnlyThread(t) /\ pc'[t].at = s /\ pc'[t].drops = pc[t].drops /\ pc'[t].adds = {}
      /\ pc'[t].attempt = a
  BY <1>1, AtMoves DEF Step
<1>6. SameTask(t) /\ pc[t].at # "enter" /\ pc'[t].at # "enter"
  BY <1>1, <1>5 DEF SameTask, Wires
<1>7. \A b \in Attempt : (Building(b)' <=> Building(b)) /\ (Entering(b)' <=> Entering(b))
  <2>1. t = "rpc" => s # "manage" /\ pc["rpc"].at # "manage"
    BY <1>1, ThreadSet DEF StepsOf, Place
  <2> QED BY <1>5, <1>6, <2>1, ThreadSet DEF Building, Entering, OnlyThread, Wires
<1>8. Excluded'
  <2>1. t = "rpc" => ~shutting_down_
    BY <1>1 DEF Excluded, Wires, Idle, At
  <2> QED BY <1>1, <1>3, <1>5, <2>1, ThreadSet DEF Excluded, InSubscription, OnlyThread, Steady, Wires
<1>9. Place(t)'
  <2>1. \A b \in pc'[t].drops : link'[b].request = "done"
    BY <1>1, <1>4, <1>5, LinksAgree DEF Place
  <2> QED BY <1>1, <1>2, <1>3, <1>4, <1>5, <2>1 DEF Place, Busy, Wires, Steady
<1>10. Threads'
  BY <1>1, <1>3, <1>4, <1>5, <1>8, <1>9, ThreadsMove
<1>11. LinkOK(a)'
  BY <1>1, <1>2, <1>3, <1>4, <1>7 DEF LinkOK, NoLinkYet, Serving, Open, GivenUp, Steady, Unused
<1>12. link'[a].pending \/ link'[a].listed \/ Building(a)' => Bound(a)
  BY <1>1, <1>2, <1>4, <1>7 DEF Bound
<1> QED BY <1>1, <1>3, <1>4, <1>5, <1>6, <1>7, <1>10, <1>11, <1>12, Moved

LEMMA WiredKept ==
    ASSUME IInv, NEW t \in {"rpc", "queue"}, InitializeConnection(t) \/ InitializeLink(t)
    PROVE  IInv'
<1>1. t \in Thread
  BY ThreadSet
<1>2. CASE InitializeConnection(t)
  <2>1. /\ Wires(t) /\ pc' = [pc EXCEPT ![t].at = "wire"] /\ link' = [link EXCEPT ![pc[t].attempt].hears = "connection"]
        /\ UNCHANGED <<external, shutting_down_, made, abandoned>>
    BY <1>2 DEF InitializeConnection, Wires
  <2>2. "wire" \in StepsOf(t)
    BY DEF StepsOf
  <2> QED BY <1>1, <2>1, <2>2, WiresOn
<1>3. CASE InitializeLink(t)
  <2> DEFINE s == IF t = "queue" THEN "manage" ELSE "list"
  <2>1. /\ Wires(t) /\ pc' = [pc EXCEPT ![t].at = s] /\ link' = [link EXCEPT ![pc[t].attempt].hears = "link"]
        /\ UNCHANGED <<external, shutting_down_, made, abandoned>>
    BY <1>3 DEF InitializeLink, Wires
  <2>2. s \in StepsOf(t) /\ s \in {"wire", "list", "manage"}
    BY DEF StepsOf
  <2> HIDE DEF s
  <2> QED BY <1>1, <2>1, <2>2, WiresOn
<1> QED BY <1>2, <1>3

\* onRetryTimer() makes a new connection, or gives up.
LEMMA RetryKept ==
    ASSUME IInv, NEW a \in Attempt, OnRetryTimer(a) PROVE IInv'
<1> DEFINE l == link[a]
           lost == [l EXCEPT !.needs_retry = FALSE, !.transport = "closed"]
           c == [l EXCEPT !.needs_retry = FALSE, !.transport = "connecting", !.hears = "nobody", !.header = "none"]
<1>1. /\ l \in LinkState /\ LinkOK(a) /\ link \in [Attempt -> LinkState]
      /\ abandoned \in [Publisher -> Faults] /\ faults \in 0 .. MaxFaults
      /\ l.timer /\ ~l.dropping /\ l.request = "done" /\ l.uri \in Publisher /\ a <= made
      /\ a \in Nat /\ made \in Nat /\ pc["queue"] = Idle
  <2>1. l.timer /\ ~l.dropping /\ pc["queue"] = Idle
    BY DEF OnRetryTimer
  <2>2. l.request = "done"
    BY <2>1, LinkFacts DEF LinkOK, NoLinkYet
  <2> QED BY <2>1, <2>2, LinkFacts
<1>2. /\ lost \in LinkState /\ lost.uri = l.uri /\ lost.request = "done" /\ lost.pending = l.pending
      /\ lost.listed = l.listed /\ ~lost.dropping /\ ~lost.needs_retry
  BY <1>1 DEF LinkState
<1>3. /\ c \in LinkState /\ c.uri = l.uri /\ c.request = "done" /\ c.pending = l.pending
      /\ c.listed = l.listed /\ ~c.dropping /\ ~c.needs_retry /\ c.transport = "connecting"
  BY <1>1 DEF LinkState
<1>4. Steady /\ faults' \in 0 .. MaxFaults
  BY <1>1 DEF OnRetryTimer, external, Steady
<1>5. CASE network[l.uri] = "unreachable"
  <2>1. /\ link' = [link EXCEPT ![a] = lost] /\ pc' = pc
        /\ abandoned' = [abandoned EXCEPT ![l.uri] = "unreachable"]
    BY <1>5 DEF OnRetryTimer
  <2> HIDE DEF lost
  <2>2. OnlyLink(a) /\ link'[a] = lost /\ StayGivenUp /\ GivenUp(a)'
    BY <1>1, <1>2, <2>1 DEF OnlyLink, StayGivenUp, Faults, GivenUp
  <2>3. LinkOK(a)'
    BY <1>1, <1>2, <1>4, <2>1, <2>2, PlacesKept DEF LinkOK, Serving, Steady, Unused
  <2> QED BY <1>2, <1>4, <2>1, <2>2, <2>3, Alone DEF Bound
<1>6. CASE network[l.uri] # "unreachable"
  <2>1. /\ link' = [link EXCEPT ![a] = c]
        /\ pc' = [pc EXCEPT !["queue"] = At("initialize", {}, {}, a)] /\ abandoned' = abandoned
    BY <1>6 DEF OnRetryTimer, Connecting
  <2> HIDE DEF c
  <2>2. OnlyLink(a) /\ link'[a] = c /\ StayGivenUp
    BY <1>1, <1>3, <2>1 DEF OnlyLink, StayGivenUp
  <2>3. pc'["queue"].at = "initialize" /\ pc'["queue"].drops = {} /\ pc'["queue"].adds = {} /\ pc'["queue"].attempt = a
        /\ OnlyThread("queue")
    <3>1. "initialize" \in Step /\ {} \in SUBSET Attempt /\ {} \in SUBSET Publisher /\ a \in Attempt \cup {0}
      BY DEF Step
    <3>2. pc \in [Thread -> PcState] /\ At("initialize", {}, {}, a) \in PcState
      BY <3>1, PlaceTypes, Typed DEF IInv
    <3>3. /\ pc' \in [Thread -> PcState] /\ pc'["queue"] = At("initialize", {}, {}, a)
          /\ \A u \in Thread : u # "queue" => pc'[u] = pc[u]
      BY <2>1, <3>2, ThreadSet, Placed
    <3> QED BY <3>1, <3>3, PlaceTypes DEF OnlyThread
  <2>4. Excluded'
    BY <1>4, <2>3, ThreadSet DEF Excluded, InSubscription, OnlyThread, Steady, IInv, Threads
  <2>5. Place("queue")'
    <3>1. a \in 1 .. made
      BY <1>1, Attempts
    <3> QED BY <1>3, <1>4, <2>2, <2>3, <3>1 DEF Place, StepsOf, Busy, Wires, Steady
  <2>6. Threads'
    BY <1>4, <2>2, <2>3, <2>4, <2>5, ThreadSet, ThreadsMove
  <2>7. SameTask("queue")
    BY <1>1, <2>3 DEF SameTask, Idle, At
  <2>8. \A b \in Attempt : (Building(b)' <=> Building(b)) /\ (Entering(b)' <=> Entering(b))
    BY <1>1, <2>3, ThreadSet DEF Building, Entering, OnlyThread, Idle, At
  <2>9. LinkOK(a)'
    BY <1>1, <1>3, <1>4, <2>2, <2>8 DEF LinkOK, Serving, Open, Steady, Unused
  <2>10. link'[a].pending \/ link'[a].listed \/ Building(a)' => Bound(a)
    BY <1>3, <2>2, <2>8 DEF Bound
  <2> QED BY <1>4, <2>2, <2>3, <2>6, <2>7, <2>8, <2>9, <2>10, ThreadSet, Moved
<1> QED BY <1>5, <1>6

LEMMA IdlePlace ==
    /\ Idle \in PcState /\ Idle.at = "idle" /\ Idle.adds = {} /\ Idle.drops = {} /\ Idle.attempt = 0
  BY PlaceTypes DEF Idle, Step, At, PcState

\* Thread t, which wires link a, is done with it.
LEMMA WiringEnds ==
    ASSUME IInv, NEW t \in Thread, Wires(t), NEW a, a = pc[t].attempt,
           NEW l \in LinkState, l.uri = link[a].uri, l.request = "done", l.pending => link[a].pending,
           l.listed => Bound(a),
           link' = [link EXCEPT ![a] = l], pc' = [pc EXCEPT ![t] = Idle],
           UNCHANGED <<external, shutting_down_, made, abandoned>>,
           l.needs_retry /\ ~l.dropping => l.timer /\ l.transport \notin {"connecting", "connected"},
           l.listed /\ l.transport \notin {"connecting", "connected"} => l.needs_retry \/ GivenUp(a),
           l.listed /\ l.dropping => GivenUp(a),
           t = "queue" => l = link[a] \/ (~l.listed /\ ~Building(a))
    PROVE  IInv'
<1>1. /\ a \in Attempt /\ a \in 1 .. made /\ link[a] \in LinkState /\ LinkOK(a)
      /\ link \in [Attempt -> LinkState] /\ link[a].request = "done"
      /\ pc \in [Thread -> PcState] /\ abandoned \in [Publisher -> Faults] /\ faults \in 0 .. MaxFaults
      /\ Place(t) /\ Excluded /\ ~Entering(a) /\ pc[t].adds = {} /\ t \in {"rpc", "queue"}
  BY WiringFacts
<1>2. Steady /\ faults' \in 0 .. MaxFaults /\ abandoned' = abandoned
  BY <1>1 DEF external, Steady
<1>3. OnlyLink(a) /\ link'[a] = l /\ StayGivenUp
  BY <1>1, <1>2 DEF OnlyLink, StayGivenUp
<1>4. OnlyThread(t) /\ pc'[t] = Idle
  BY <1>1, IdlePlace DEF OnlyThread
<1>5. SameTask(t)
  BY <1>1, <1>4, IdlePlace DEF SameTask, Wires
<1>6. \A b \in Attempt : /\ Entering(b)' <=> Entering(b)
                         /\ Building(b)' <=> Building(b) /\ t # "rpc"
  <2>1. \A u \in Thread : pc'[u].at = "enter" <=> pc[u].at = "enter"
    BY <1>4, IdlePlace DEF OnlyThread, Wires
  <2>2. \A u \in Thread : pc[u].at = "enter" => pc'[u].attempt = pc[u].attempt
    BY <1>4 DEF OnlyThread, Wires
  <2>3. \A b \in Attempt : Building(b)' <=> Building(b) /\ t # "rpc"
    BY <1>1, <1>4, IdlePlace, ThreadSet DEF Building, OnlyThread
  <2> QED BY <2>1, <2>2, <2>3 DEF Entering
<1>7. \A b \in Attempt : b # a => (Building(b)' <=> Building(b))
  BY <1>1, <1>6 DEF Building
<1>8. Excluded'
  BY <1>1, <1>2, <1>4, IdlePlace, ThreadSet DEF Excluded, InSubscription, OnlyThread, Steady
<1>9. Place(t)'
  BY <1>1, <1>4, IdlePlace DEF Place, StepsOf, Busy, Wires
<1>10. Threads'
  BY <1>1, <1>2, <1>3, <1>4, <1>8, <1>9, ThreadsMove
<1>11. GivenUp(a)' <=> GivenUp(a)
  BY <1>2, <1>3 DEF GivenUp
<1>12. Serving(a)' => l.listed \/ (Building(a) /\ l = link[a])
  BY <1>1, <1>3, <1>6 DEF Serving
<1>13. LinkOK(a)'
  <2>1. made' = made /\ (shutting_down_' <=> shutting_down_) /\ a <= made
    BY <1>1, <1>2, Attempts, LinkFacts DEF Steady
  <2>2. link[a].request = "done" => shutting_down_ \/ ~link[a].pending
    BY <1>1 DEF LinkOK
  <2>3. Building(a) /\ l = link[a] => Serving(a)
    BY DEF Serving
  <2>4. Serving(a) /\ l = link[a] =>
           /\ l.transport \notin {"connecting", "connected"} => l.needs_retry \/ GivenUp(a)
           /\ l.dropping => GivenUp(a)
    BY <1>1 DEF LinkOK, Open
  <2>5. LinkOK(a) /\ a <= made => link[a].uri \in Publisher
    BY DEF LinkOK
  <2>6. ~Entering(a)'
    BY <1>1, <1>6
  <2>7. ~(a > made')
    BY <1>1, <2>1, Attempts, LinkFacts
  <2> QED BY <1>1, <1>3, <1>11, <1>12, <2>1, <2>2, <2>3, <2>4, <2>5, <2>6, <2>7 DEF LinkOK, Open
<1>14. link'[a].pending \/ link'[a].listed \/ Building(a)' => Bound(a)
  BY <1>1, <1>3, <1>6 DEF Bound
<1> QED BY <1>1, <1>2, <1>3, <1>4, <1>5, <1>7, <1>10, <1>13, <1>14, Moved

LEMMA EndRetryKept ==
    ASSUME IInv, EndRetry PROVE IInv'
<1> DEFINE a == pc["queue"].attempt
           l == IF link[a].dropping /\ ~Building(a) THEN Dropped(link[a], FALSE) ELSE link[a]
<1>1. "queue" \in Thread /\ Wires("queue")
  BY ThreadSet DEF EndRetry, Wires
<1>2. a \in Attempt /\ link[a] \in LinkState /\ LinkOK(a) /\ link[a].request = "done"
  BY <1>1, WiringFacts
<1>3. /\ Dropped(link[a], FALSE) \in LinkState /\ Dropped(link[a], FALSE).uri = link[a].uri
      /\ Dropped(link[a], FALSE).request = "done" /\ Dropped(link[a], FALSE).pending = link[a].pending
      /\ Dropped(link[a], FALSE).dropping /\ ~Dropped(link[a], FALSE).listed
  BY <1>2, DroppedLink
<1>4. /\ l \in LinkState /\ l.uri = link[a].uri /\ l.request = "done" /\ l.pending = link[a].pending
      /\ l = link[a] \/ (~l.listed /\ l.dropping /\ ~Building(a))
  BY <1>2, <1>3
<1>5. /\ link' = [link EXCEPT ![a] = l] /\ pc' = [pc EXCEPT !["queue"] = Idle]
      /\ UNCHANGED <<external, shutting_down_, made, abandoned>>
  BY DEF EndRetry
<1> HIDE DEF l
<1>6. /\ l.needs_retry /\ ~l.dropping => l.timer /\ l.transport \notin {"connecting", "connected"}
      /\ l.listed /\ l.transport \notin {"connecting", "connected"} => l.needs_retry \/ GivenUp(a)
      /\ l.listed /\ l.dropping => GivenUp(a)
      /\ l.listed => Bound(a)
  BY <1>2, <1>4 DEF LinkOK, Serving, Open, Bound
<1> HIDE DEF a
<1>7. a = pc["queue"].attempt
  BY DEF a
<1> QED BY <1>1, <1>4, <1>5, <1>6, <1>7, WiringEnds

\* The finished link is entered, even one that has been dropped meanwhile.
LEMMA AddedKept ==
    ASSUME IInv, AddPublisherLink PROVE IInv'
<1> DEFINE a == pc["rpc"].attempt
           l == [link[a] EXCEPT !.listed = TRUE]
<1>1. "rpc" \in Thread /\ Wires("rpc") /\ "rpc" # "queue"
  BY ThreadSet DEF AddPublisherLink, Wires
<1>2. a \in Attempt /\ link[a] \in LinkState /\ LinkOK(a) /\ link[a].request = "done"
  BY <1>1, WiringFacts
<1>3. Building(a)
  BY DEF AddPublisherLink, Building
<1>4. /\ l \in LinkState /\ l.uri = link[a].uri /\ l.request = "done" /\ l.pending = link[a].pending
      /\ l.needs_retry = link[a].needs_retry /\ l.dropping = link[a].dropping /\ l.timer = link[a].timer
      /\ l.transport = link[a].transport
  BY <1>2 DEF LinkState
<1>5. /\ link' = [link EXCEPT ![a] = l] /\ pc' = [pc EXCEPT !["rpc"] = Idle]
      /\ UNCHANGED <<external, shutting_down_, made, abandoned>>
  BY DEF AddPublisherLink
<1> HIDE DEF l
<1>6. /\ l.needs_retry /\ ~l.dropping => l.timer /\ l.transport \notin {"connecting", "connected"}
      /\ l.transport \notin {"connecting", "connected"} => l.needs_retry \/ GivenUp(a)
      /\ l.dropping => GivenUp(a)
      /\ Bound(a)
  BY <1>2, <1>3, <1>4 DEF LinkOK, Serving, Open, Bound
<1> HIDE DEF a
<1>7. a = pc["rpc"].attempt
  BY DEF a
<1>8. /\ l.pending => link[a].pending
      /\ l.listed => Bound(a)
      /\ l.listed /\ l.transport \notin {"connecting", "connected"} => l.needs_retry \/ GivenUp(a)
      /\ l.listed /\ l.dropping => GivenUp(a)
  BY <1>4, <1>6
<1>9. l \in LinkState /\ l.uri = link[a].uri /\ l.request = "done"
  BY <1>4
<1>10. l.needs_retry /\ ~l.dropping => l.timer /\ l.transport \notin {"connecting", "connected"}
  BY <1>6
<1> QED BY <1>1, <1>5, <1>7, <1>8, <1>9, <1>10, WiringEnds

LEMMA DropKept ==
    ASSUME IInv, NEW t \in Subscriber, DropSubtraction(t) PROVE IInv'
<1>1. pc \in [Thread -> PcState] /\ t \in Thread /\ Place(t) /\ Excluded /\ pc[t].at = "drop"
      /\ pc[t] \in PcState
  BY Typed, ThreadSet DEF IInv, Threads, DropSubtraction
<1>2. PICK a \in pc[t].drops : /\ link' = [link EXCEPT ![a] = Dropped(link[a], Held(a))]
                               /\ pc' = [pc EXCEPT ![t].drops = pc[t].drops \ {a}]
  BY DEF DropSubtraction
<1> DEFINE l == Dropped(link[a], Held(a))
<1>3. a \in Attempt /\ link[a].request = "done"
  BY <1>1 DEF Place, PcState
<1>4. /\ link[a] \in LinkState /\ LinkOK(a) /\ link \in [Attempt -> LinkState]
      /\ abandoned \in [Publisher -> Faults] /\ faults \in 0 .. MaxFaults /\ Held(a) \in BOOLEAN
  BY <1>3, LinkFacts DEF Held, InRetry, Building
<1>5. /\ l \in LinkState /\ l.uri = link[a].uri /\ l.request = "done" /\ l.pending = link[a].pending
      /\ l.dropping /\ ~l.listed
  BY <1>3, <1>4, DroppedLink
<1>6. Steady /\ faults' \in 0 .. MaxFaults /\ abandoned' = abandoned /\ link' = [link EXCEPT ![a] = l]
  BY <1>2, <1>4 DEF DropSubtraction, external, Steady
<1> HIDE DEF l
<1>7. OnlyLink(a) /\ link'[a] = l /\ StayGivenUp
  BY <1>3, <1>4, <1>5, <1>6 DEF OnlyLink, StayGivenUp
<1>8. /\ OnlyThread(t) /\ pc'[t].at = "drop" /\ pc'[t].drops \subseteq pc[t].drops /\ pc'[t].adds = pc[t].adds
      /\ pc'[t].attempt = pc[t].attempt
  <2>1. pc'[t] = [pc[t] EXCEPT !.drops = pc[t].drops \ {a}]
    BY <1>1, <1>2
  <2>2. pc[t].drops \ {a} \in SUBSET Attempt
    BY <1>1 DEF PcState
  <2>3. /\ pc'[t] \in PcState /\ pc'[t].at = "drop" /\ pc'[t].drops = pc[t].drops \ {a}
        /\ pc'[t].adds = pc[t].adds /\ pc'[t].attempt = pc[t].attempt
    BY <1>1, <2>1, <2>2 DEF PcState
  <2> QED BY <1>1, <1>2, <2>3 DEF OnlyThread
<1>9. SameTask(t)
  BY <1>1, <1>8 DEF SameTask
<1>10. ~Building(a)
  BY <1>1, ThreadSet DEF Building, Excluded, InSubscription, Subscriber, Idle, At
<1>11. \A b \in Attempt : (Building(b)' <=> Building(b)) /\ (Entering(b)' <=> Entering(b))
  BY <1>1, <1>8, ThreadSet DEF Building, Entering, OnlyThread
<1>12. Excluded'
  <2>1. pc'["user"].at = pc["user"].at /\ pc'["user"].adds = pc["user"].adds /\ pc'["rpc"].at = pc["rpc"].at
    BY <1>1, <1>8, ThreadSet DEF OnlyThread
  <2>2. shutting_down_ => t # "rpc" /\ pc["rpc"] = Idle
    BY <1>1, IdlePlace DEF Excluded
  <2>3. shutting_down_ => pc'["rpc"] = Idle
    BY <1>8, <2>2, ThreadSet DEF OnlyThread
  <2> QED BY <1>1, <1>6, <2>1, <2>3 DEF Excluded, InSubscription, Steady
<1>13. Place(t)'
  <2>1. \A b \in pc'[t].drops : link'[b].request = "done"
    BY <1>1, <1>3, <1>7, <1>8, LinksAgree DEF Place, PcState
  <2> QED BY <1>1, <1>8, <2>1, ThreadSet DEF Place, Busy, Wires, StepsOf
<1>14. Threads'
  BY <1>1, <1>3, <1>6, <1>7, <1>8, <1>12, <1>13, ThreadsMove
<1>15. LinkOK(a)'
  BY <1>3, <1>4, <1>5, <1>6, <1>7, <1>10, <1>11 DEF LinkOK, Serving, Steady, Unused
<1>16. link'[a].pending \/ link'[a].listed \/ Building(a)' => Bound(a)
  <2>1. ~link'[a].listed /\ ~Building(a)' /\ link'[a].pending = link[a].pending
    BY <1>3, <1>5, <1>7, <1>10, <1>11
  <2> QED BY <2>1 DEF Bound
<1> QED BY <1>1, <1>3, <1>6, <1>7, <1>8, <1>9, <1>11, <1>14, <1>15, <1>16, Moved

-----------------------------------------------------------------------------
(* The lists and what is to be asked of them *)

LEMMA CountFacts ==
    ASSUME IInv
    PROVE  /\ Cardinality(Publisher) \in Nat /\ made \in Nat /\ sent \in 0 .. MaxUpdates /\ MaxUpdates \in Nat
           /\ Len(updates) \in 0 .. MaxUpdates /\ Lists \in Nat
           /\ \A t \in Subscriber : /\ pc[t].adds \subseteq Publisher /\ IsFiniteSet(pc[t].adds)
                                    /\ Cardinality(pc[t].adds) \in Nat /\ Planned(t) \in Nat
<1>1. /\ TypeOK /\ pc \in [Thread -> PcState] /\ made \in Attempt \cup {0} /\ sent \in 0 .. MaxUpdates
      /\ Len(updates) \in 0 .. MaxUpdates
  BY Typed DEF IInv
<1>2. MaxUpdates \in Nat /\ made \in Nat /\ Cardinality(Publisher) \in Nat
  BY <1>1, Attempts, PublisherLinksAssumption
<1>3. Lists \in Nat
  BY <1>1, <1>2 DEF Lists
<1>4. ASSUME NEW t \in Subscriber
      PROVE  /\ pc[t].adds \subseteq Publisher /\ IsFiniteSet(pc[t].adds)
             /\ Cardinality(pc[t].adds) \in Nat /\ Planned(t) \in Nat
  <2>1. pc[t].adds \subseteq Publisher /\ t \in Thread
    BY <1>1, ThreadSet DEF PcState
  <2>2. IsFiniteSet(pc[t].adds) /\ Cardinality(pc[t].adds) \in Nat
    BY <2>1, FS_Subset, FS_CardinalityType, PublisherLinksAssumption
  <2>3. pc[t].at = "enter" => pc[t].adds # {}
    BY <2>1 DEF IInv, Threads, Place
  <2>4. pc[t].at = "enter" => Cardinality(pc[t].adds) # 0
    BY <2>2, <2>3, FS_EmptySet
  <2> QED BY <2>1, <2>2, <2>4 DEF Planned
<1> QED BY <1>1, <1>2, <1>3, <1>4

\* A step that is not of the threads and changes no link.
LEMMA QuietKept ==
    ASSUME IInv, UNCHANGED <<pc, link, made, shutting_down_, abandoned>>, TypeOK', Counted'
    PROVE  IInv'
<1>1. Threads'
  BY DEF IInv, Threads, Excluded, Place, InSubscription, Busy, Wires
<1>2. \A a \in Attempt : (Building(a)' <=> Building(a)) /\ (Entering(a)' <=> Entering(a))
  BY DEF Building, Entering
<1>3. \A a \in Attempt : LinkOK(a)'
  <2> SUFFICES ASSUME NEW a \in Attempt PROVE LinkOK(a)'
    OBVIOUS
  <2>1. LinkOK(a)
    BY DEF IInv
  <2> QED BY <1>2, <2>1 DEF LinkOK, Serving, Open, GivenUp
<1>4. OneEach' /\ Unserved'
  <2>1. \A a \in Attempt : Bound(a)' <=> Bound(a)
    BY <1>2 DEF Bound
  <2> QED BY <2>1, BindingsKept DEF IInv, Asked
<1> QED BY <1>1, <1>3, <1>4 DEF IInv

LEMMA Less ==
    ASSUME NEW k \in Int, NEW n \in Nat
    PROVE  (k - 1) * n = k * n - n /\ k * n \in Int /\ (k >= 0 => k * n >= 0)
  OBVIOUS

LEMMA RegistryKept ==
    ASSUME IInv, NEW p \in Publisher, RegistryChanges(p) PROVE IInv'
<1>1. /\ registered \subseteq Publisher /\ updates \in Seq(SUBSET Publisher) /\ sent \in 0 .. MaxUpdates
      /\ faults \in 0 .. MaxFaults /\ network \in [Publisher -> {"up", "refused", "unreachable"}]
      /\ shutting_down_ \in BOOLEAN /\ pc \in [Thread -> PcState] /\ made \in Attempt \cup {0}
      /\ link \in [Attempt -> LinkState] /\ abandoned \in [Publisher -> Faults]
      /\ Len(updates) \in 0 .. MaxUpdates /\ Len(updates) <= sent /\ MaxUpdates \in Nat
  BY Typed, PublisherLinksAssumption DEF IInv, Faults, Counted
<1>2. /\ registered' \subseteq Publisher /\ sent < MaxUpdates /\ sent' = sent + 1
      /\ UNCHANGED <<network, faults, shutting_down_, pc, made, link, abandoned>>
      /\ updates' = Append(updates, registered') \/ updates' = updates
  BY <1>1 DEF RegistryChanges
<1>3. /\ updates' \in Seq(SUBSET Publisher)
      /\ Len(updates') = Len(updates) + 1 \/ Len(updates') = Len(updates)
  <2>1. CASE updates' = Append(updates, registered')
    <3>1. registered' \in SUBSET Publisher
      BY <1>2
    <3> QED BY <1>1, <2>1, <3>1, AppendProperties
  <2>2. CASE updates' = updates
    BY <1>1, <2>2
  <2> QED BY <1>2, <2>1, <2>2
<1>4. TypeOK'
  BY <1>1, <1>2, <1>3, Types DEF Faults
<1>5. Counted'
  <2> DEFINE n == Cardinality(Publisher)
  <2>1. Lists' = Lists \/ Lists' = Lists - 1
    <3> DEFINE w == IF pc["user"].at = "start" THEN 1 ELSE 0
    <3>1. w \in Nat /\ w' = w
      BY <1>2
    <3>2. Lists = (MaxUpdates - sent) + Len(updates) + w /\ Lists' = (MaxUpdates - sent') + Len(updates') + w
      BY <1>2, <3>1 DEF Lists
    <3> HIDE DEF w
    <3>3. /\ sent \in Int /\ MaxUpdates \in Int /\ Len(updates) \in Int /\ sent' = sent + 1
          /\ Len(updates') = Len(updates) + 1 \/ Len(updates') = Len(updates)
      BY <1>1, <1>2, <1>3
    <3> QED BY <3>1, <3>2, <3>3
  <2>2. Planned("user")' = Planned("user") /\ Planned("rpc")' = Planned("rpc")
    BY <1>2 DEF Planned
  <2>3. /\ made \in Nat /\ Planned("user") \in Nat /\ Planned("rpc") \in Nat /\ Lists \in Nat /\ n \in Nat
        /\ made + Planned("user") + Planned("rpc") + Lists * n <= (MaxUpdates + 1) * n
    BY CountFacts, ThreadSet DEF IInv, Counted
  <2>4. Lists' * n = Lists * n \/ Lists' * n = Lists * n - n
    BY <2>1, <2>3, Less
  <2>5. Lists * n \in Int /\ (MaxUpdates + 1) * n \in Int
    BY <1>1, <2>3
  <2> HIDE DEF n
  <2>6. made' + Planned("user")' + Planned("rpc")' + Lists' * n <= (MaxUpdates + 1) * n
    <3> DEFINE x == Lists * n
               y == (MaxUpdates + 1) * n
               z == Lists' * n
    <3>1. x \in Int /\ y \in Int /\ (z = x \/ z = x - n) /\ made + Planned("user") + Planned("rpc") + x <= y
      BY <2>3, <2>4, <2>5
    <3> HIDE DEF x, y, z
    <3>2. made + Planned("user") + Planned("rpc") + z <= y
      BY <2>3, <3>1
    <3>3. made' + Planned("user")' + Planned("rpc")' + z <= y
      BY <1>2, <2>2, <3>2
    <3> QED BY <3>3 DEF y, z
  <2> QED BY <1>1, <1>2, <1>3, <2>6 DEF Counted, n
<1> QED BY <1>2, <1>4, <1>5, QuietKept

LEMMA NetworkKept ==
    ASSUME IInv, NEW p \in Publisher, NetworkChanges(p) PROVE IInv'
<1>1. /\ registered \subseteq Publisher /\ updates \in Seq(SUBSET Publisher) /\ sent \in 0 .. MaxUpdates
      /\ faults \in 0 .. MaxFaults /\ network \in [Publisher -> {"up", "refused", "unreachable"}]
      /\ shutting_down_ \in BOOLEAN /\ pc \in [Thread -> PcState] /\ made \in Attempt \cup {0}
      /\ link \in [Attempt -> LinkState] /\ abandoned \in [Publisher -> Faults]
      /\ Len(updates) \in 0 .. MaxUpdates /\ MaxFaults \in Nat /\ Counted
  BY Typed, PublisherLinksAssumption DEF IInv, Faults
<1>2. /\ UNCHANGED <<registered, updates, sent, shutting_down_, pc, made, link, abandoned>>
      /\ faults < MaxFaults /\ faults' = faults + 1
      /\ network' \in [Publisher -> {"up", "refused", "unreachable"}]
  BY <1>1 DEF NetworkChanges
<1>3. TypeOK'
  BY <1>1, <1>2, Types DEF Faults
<1>4. Counted'
  BY <1>1, <1>2 DEF Counted, Planned, Lists
<1> QED BY <1>2, <1>3, <1>4, QuietKept

\* Thread t turns to what nobody is bound to yet, with no link and no call in its hands.
LEMMA Turned ==
    ASSUME IInv, NEW t \in Subscriber, OnlyThread(t), UNCHANGED <<link, made, shutting_down_>>, StayGivenUp,
           TypeOK', Counted', Place(t)', Excluded',
           pc[t].at \notin {"enter", "initialize", "wire", "list"},
           pc'[t].at \notin {"enter", "initialize", "wire", "list"},
           \A p \in pc'[t].adds : \A a \in Attempt : Bound(a) => link[a].uri # p
    PROVE  IInv'
<1>1. t \in Thread
  BY ThreadSet
<1>2. \A a \in Attempt : (Building(a)' <=> Building(a)) /\ (Entering(a)' <=> Entering(a))
  <2>1. \A u \in Thread : u # t => pc'[u] = pc[u]
    BY DEF OnlyThread
  <2>2. \A a \in Attempt : Entering(a)' <=> Entering(a)
    BY <1>1, <2>1 DEF Entering
  <2>3. \A a \in Attempt : Building(a)' <=> Building(a)
    BY <1>1, <2>1, ThreadSet DEF Building
  <2> QED BY <2>2, <2>3
<1>3. Threads'
  <2> SUFFICES ASSUME NEW u \in Thread, u # t PROVE Place(u)'
    BY DEF Threads
  <2>1. pc'[u] = pc[u] /\ Place(u)
    BY DEF OnlyThread, IInv, Threads
  <2> QED BY <2>1 DEF Place, Busy, Wires
<1>4. ASSUME NEW a \in Attempt PROVE LinkOK(a)'
  <2>1. LinkOK(a) /\ link'[a] = link[a]
    BY DEF IInv
  <2>2. (Open(a)' <=> Open(a)) /\ (Serving(a)' <=> Serving(a))
    BY <1>2 DEF Open, Serving
  <2>3. Serving(a) /\ GivenUp(a) => GivenUp(a)'
    <3>1. Serving(a) => link[a].uri \in Publisher
      <4>1. Serving(a) => link[a].request # "none"
        BY <2>1 DEF LinkOK
      <4> QED BY <4>1, LinkFacts
    <3> QED BY <2>1, <3>1 DEF GivenUp, StayGivenUp
  <2> QED BY <1>2, <2>1, <2>2, <2>3 DEF LinkOK
<1>5. \A a \in Attempt : Bound(a)' <=> Bound(a)
  BY <1>2 DEF Bound
<1>6. OneEach'
  BY <1>5 DEF IInv, OneEach
<1>7. Unserved'
  <2> SUFFICES ASSUME NEW u \in Subscriber, NEW p \in pc'[u].adds, ~Asked(u, p)',
                      NEW a \in Attempt, Bound(a)
               PROVE  link[a].uri # p
    BY <1>5 DEF Unserved
  <2>1. CASE u = t
    BY <2>1
  <2>2. CASE u # t
    <3>1. pc'[u] = pc[u]
      BY <2>2, ThreadSet DEF OnlyThread
    <3>2. p \in pc[u].adds /\ ~Asked(u, p)
      BY <3>1 DEF Asked
    <3> QED BY <3>2 DEF IInv, Unserved
  <2> QED BY <2>1, <2>2
<1> QED BY <1>3, <1>4, <1>6, <1>7 DEF IInv

LEMMA Bounded ==
    ASSUME NEW m \in Nat, NEW f \in Nat, NEW g \in Nat, NEW k \in Nat, NEW n \in Nat, NEW b \in Int,
           NEW l \in Nat, NEW gain \in {0, 1}, k <= f + gain * n, m + (f + g) + (l + gain) * n <= b
    PROVE  m + (k + g) + l * n <= b
<1> DEFINE x == l * n
<1>1. x \in Int
  OBVIOUS
<1>2. CASE gain = 0
  <2>1. m + (f + g) + x <= b /\ k <= f
    BY <1>2
  <2> HIDE DEF x
  <2>2. m + (k + g) + x <= b
    BY <1>1, <2>1
  <2> QED BY <2>2 DEF x
<1>3. CASE gain = 1
  <2>1. (l + 1) * n = x + n
    OBVIOUS
  <2>2. m + (f + g) + (x + n) <= b /\ k <= f + n
    BY <1>3, <2>1
  <2> HIDE DEF x
  <2>3. m + (k + g) + x <= b
    BY <1>1, <2>2
  <2> QED BY <2>3 DEF x
<1> QED BY <1>2, <1>3

\* The count, when thread t has no more to ask than before and less is to come.
LEMMA CountedStill ==
    ASSUME IInv, NEW t \in Subscriber, OnlyThread(t), UNCHANGED <<made, sent>>,
           Len(updates') \in Nat, Len(updates') <= Len(updates), Lists' \in Nat,
           NEW gain \in {0, 1}, Lists = Lists' + gain,
           Planned(t)' \in Nat, Planned(t)' <= Planned(t) + gain * Cardinality(Publisher)
    PROVE  Counted'
<1>1. /\ Cardinality(Publisher) \in Nat /\ made \in Nat /\ sent \in 0 .. MaxUpdates /\ MaxUpdates \in Nat
      /\ Planned("user") \in Nat /\ Planned("rpc") \in Nat
      /\ Len(updates) \in 0 .. MaxUpdates /\ Len(updates) <= sent
      /\ made + Planned("user") + Planned("rpc") + Lists * Cardinality(Publisher)
            <= (MaxUpdates + 1) * Cardinality(Publisher)
  BY CountFacts, ThreadSet DEF IInv, Counted
<1>2. PICK u \in Subscriber : u # t
  BY ThreadSet
<1>3. Planned(u)' = Planned(u) /\ Planned(u) \in Nat /\ Planned(t) \in Nat
  <2>1. pc'[u] = pc[u]
    BY <1>2, ThreadSet DEF OnlyThread
  <2> QED BY <1>1, <2>1, ThreadSet DEF Planned
<1>4. (t = "user" /\ u = "rpc") \/ (t = "rpc" /\ u = "user")
  BY <1>2, ThreadSet
<1>5. made + Planned("user") + Planned("rpc") = made + (Planned(t) + Planned(u))
  <2>1. CASE t = "user" /\ u = "rpc"
    BY <1>1, <2>1
  <2>2. CASE t = "rpc" /\ u = "user"
    BY <1>1, <2>2
  <2> QED BY <1>4, <2>1, <2>2
<1>6. made' + Planned("user")' + Planned("rpc")' = made + (Planned(t)' + Planned(u))
  <2>1. CASE t = "user" /\ u = "rpc"
    BY <1>1, <1>3, <2>1
  <2>2. CASE t = "rpc" /\ u = "user"
    BY <1>1, <1>3, <2>2
  <2> QED BY <1>4, <2>1, <2>2
<1>7. (MaxUpdates + 1) * Cardinality(Publisher) \in Int
  BY <1>1
<1>8. made + (Planned(t) + Planned(u)) + (Lists' + gain) * Cardinality(Publisher)
         <= (MaxUpdates + 1) * Cardinality(Publisher)
  BY <1>1, <1>5
<1>9. made + (Planned(t)' + Planned(u)) + Lists' * Cardinality(Publisher)
         <= (MaxUpdates + 1) * Cardinality(Publisher)
  BY <1>1, <1>3, <1>7, <1>8, Bounded
<1>10. Len(updates') <= sent'
  BY <1>1
<1> QED BY <1>6, <1>9, <1>10 DEF Counted

LEMMA ListsSame ==
    ASSUME NEW t \in Thread, OnlyThread(t), UNCHANGED <<updates, sent>>,
           pc[t].at # "start", pc'[t].at # "start"
    PROVE  Lists' = Lists
<1>1. pc'["user"].at = "start" <=> pc["user"].at = "start"
  BY ThreadSet DEF OnlyThread
<1> QED BY <1>1 DEF Lists

\* What t still has to ask is fewer when it is a part of what it had.
LEMMA Fewer ==
    ASSUME IInv, NEW t \in Subscriber, pc[t].at # "enter", pc'[t].at # "enter", pc'[t].adds \subseteq pc[t].adds
    PROVE  Planned(t)' \in Nat /\ Planned(t)' <= Planned(t)
<1>1. IsFiniteSet(pc[t].adds) /\ Cardinality(pc[t].adds) \in Nat
  BY CountFacts
<1>2. /\ Cardinality(pc'[t].adds) \in Nat /\ Cardinality(pc'[t].adds) <= Cardinality(pc[t].adds)
  BY <1>1, FS_Subset, FS_CardinalityType
<1>3. Planned(t) = Cardinality(pc[t].adds) /\ Planned(t)' = Cardinality(pc'[t].adds)
  BY <1>1, <1>2 DEF Planned
<1> QED BY <1>2, <1>3

\* Thread t goes on to s within pubUpdate(), or leaves it.
LEMMA GoesOn ==
    ASSUME IInv, NEW t \in Subscriber, NEW s \in PcState, pc' = [pc EXCEPT ![t] = s],
           pc[t].at \in {"drop", "negotiate"}, s.at \in {"negotiate", "idle", "gone"},
           s.adds \subseteq pc[t].adds, s.drops = {}, s.at = "idle" => s = Idle, s.at = "gone" => t = "user",
           s.at = "gone" <=> shutting_down_, s.at = "gone" => s.adds = {},
           UNCHANGED <<external, shutting_down_, made, link>>, StayGivenUp
    PROVE  IInv'
<1>1. /\ pc \in [Thread -> PcState] /\ t \in Thread /\ Place(t) /\ Excluded /\ pc[t] \in PcState
      /\ Len(updates) \in Nat
  BY Typed, ThreadSet DEF IInv, Threads
<1>2. OnlyThread(t) /\ pc'[t] = s
  BY <1>1 DEF OnlyThread
<1>3. TypeOK'
  BY <1>2, Typed, Types DEF external, StayGivenUp, Faults, OnlyThread, IInv
<1>4. Lists' = Lists /\ Lists \in Nat
  BY <1>1, <1>2, ListsSame, CountFacts DEF external
<1>5. Planned(t)' \in Nat /\ Planned(t)' <= Planned(t) /\ Planned(t) \in Nat
  BY <1>2, Fewer, CountFacts
<1>6. Counted'
  <2>1. Lists = Lists' + 0 /\ Planned(t)' <= Planned(t) + 0 * Cardinality(Publisher)
    BY <1>4, <1>5, CountFacts
  <2>2. UNCHANGED <<made, sent>> /\ Len(updates') \in Nat /\ Len(updates') <= Len(updates) /\ Lists' \in Nat
    BY <1>1, <1>4 DEF external
  <2> QED BY <1>2, <1>5, <2>1, <2>2, CountedStill DEF OnlyThread
<1>7. Place(t)'
  <2>1. t = "user" \/ t = "rpc"
    BY ThreadSet
  <2> QED BY <1>1, <1>2, <2>1, IdlePlace DEF Place, StepsOf, Busy, Wires
<1>8. Excluded'
  <2>1. \A u \in Thread : u # t => pc'[u] = pc[u]
    BY <1>2 DEF OnlyThread
  <2>2. CASE t = "user"
    BY <1>1, <1>2, <2>1, <2>2, ThreadSet DEF Excluded, InSubscription
  <2>3. CASE t = "rpc"
    BY <1>1, <1>2, <2>1, <2>3, IdlePlace, ThreadSet DEF Excluded, InSubscription
  <2> QED BY <2>2, <2>3, ThreadSet
<1>9. \A p \in pc'[t].adds : \A a \in Attempt : Bound(a) => link[a].uri # p
  BY <1>2 DEF IInv, Unserved, Asked
<1> QED BY <1>1, <1>2, <1>3, <1>6, <1>7, <1>8, <1>9, Turned

LEMMA DropsDoneKept ==
    ASSUME IInv, NEW t \in Subscriber, DropsDone(t) PROVE IInv'
<1> DEFINE r == IF shutting_down_ THEN At("gone", {}, {}, 0)
                ELSE IF pc[t].adds = {} THEN Idle ELSE [pc[t] EXCEPT !.at = "negotiate"]
<1>1. /\ pc \in [Thread -> PcState] /\ t \in Thread /\ Excluded /\ pc[t] \in PcState
      /\ abandoned \in [Publisher -> Faults]
  BY Typed, ThreadSet DEF IInv, Threads, Faults
<1>2. pc[t].at = "drop" /\ pc[t].drops = {} /\ UNCHANGED <<external, shutting_down_, made, link, abandoned>>
  BY DEF DropsDone
<1>3. pc' = [pc EXCEPT ![t] = r]
  BY DEF DropsDone
<1>4. At("gone", {}, {}, 0) \in PcState /\ At("gone", {}, {}, 0).at = "gone"
      /\ At("gone", {}, {}, 0).drops = {} /\ At("gone", {}, {}, 0).adds = {}
  <2>1. "gone" \in Step /\ {} \in SUBSET Attempt /\ {} \in SUBSET Publisher /\ 0 \in Attempt \cup {0}
    BY DEF Step
  <2> QED BY <2>1, PlaceTypes
<1>5. /\ [pc[t] EXCEPT !.at = "negotiate"] \in PcState /\ [pc[t] EXCEPT !.at = "negotiate"].at = "negotiate"
      /\ [pc[t] EXCEPT !.at = "negotiate"].drops = {} /\ [pc[t] EXCEPT !.at = "negotiate"].adds = pc[t].adds
  BY <1>1, <1>2 DEF PcState, Step
<1>6. shutting_down_ => t = "user"
  BY <1>1, <1>2, IdlePlace, ThreadSet DEF Excluded
<1>7. /\ r \in PcState /\ r.at \in {"negotiate", "idle", "gone"} /\ r.adds \subseteq pc[t].adds /\ r.drops = {}
      /\ r.at = "idle" => r = Idle
      /\ r.at = "gone" => t = "user"
      /\ r.at = "gone" <=> shutting_down_
      /\ r.at = "gone" => r.adds = {}
  BY <1>4, <1>5, <1>6, IdlePlace
<1>8. StayGivenUp
  BY <1>1, <1>2 DEF StayGivenUp
<1> HIDE DEF r
<1> QED BY <1>2, <1>3, <1>7, <1>8, GoesOn

\* What is left to ask after p.
Rest(t, p) == IF pc[t].adds = {p} THEN Idle ELSE At("negotiate", {}, pc[t].adds \ {p}, 0)

LEMMA RestFacts ==
    ASSUME IInv, NEW t \in Subscriber, NEW p \in pc[t].adds
    PROVE  /\ Rest(t, p) \in PcState /\ Rest(t, p).at \in {"negotiate", "idle"}
           /\ Rest(t, p).adds = pc[t].adds \ {p} /\ Rest(t, p).drops = {}
           /\ Rest(t, p).at = "idle" => Rest(t, p) = Idle
           /\ AfterNegotiation(t, p) = Rest(t, p)
<1>1. "negotiate" \in Step /\ {} \in SUBSET Attempt /\ pc[t].adds \ {p} \in SUBSET Publisher /\ 0 \in Attempt \cup {0}
  BY CountFacts DEF Step
<1>2. /\ At("negotiate", {}, pc[t].adds \ {p}, 0) \in PcState
      /\ At("negotiate", {}, pc[t].adds \ {p}, 0).at = "negotiate"
      /\ At("negotiate", {}, pc[t].adds \ {p}, 0).drops = {}
      /\ At("negotiate", {}, pc[t].adds \ {p}, 0).adds = pc[t].adds \ {p}
  BY <1>1, PlaceTypes
<1> QED BY <1>2, IdlePlace DEF Rest, AfterNegotiation

\* A subscriber's thread that is asking holds the mutex, and nothing has been shut down.
LEMMA AskingFacts ==
    ASSUME IInv, NEW t \in Subscriber, NEW p \in pc[t].adds
    PROVE  /\ ~shutting_down_ /\ pc[t].at \in {"drop", "negotiate", "enter"} /\ t \in Thread /\ Place(t) /\ Excluded
           /\ \A u \in Subscriber : u # t => ~InSubscription(u)
           /\ pc \in [Thread -> PcState] /\ pc[t] \in PcState /\ p \in Publisher
<1>1. /\ pc \in [Thread -> PcState] /\ t \in Thread /\ Place(t) /\ Excluded /\ pc[t] \in PcState
  BY Typed, ThreadSet DEF IInv, Threads
<1>2. pc[t].at \in {"drop", "negotiate", "enter"}
  BY <1>1 DEF Place, Busy
<1>3. ~shutting_down_
  BY <1>1, <1>2, IdlePlace, ThreadSet DEF Excluded
<1>4. \A u \in Subscriber : u # t => ~InSubscription(u)
  BY <1>1, <1>2, ThreadSet DEF Excluded, InSubscription
<1> QED BY <1>1, <1>2, <1>3, <1>4, CountFacts

LEMMA UnreachableKept ==
    ASSUME IInv, NEW t \in Subscriber, NEW p \in Publisher, NegotiateConnection(t, p),
           network[p] = "unreachable"
    PROVE  IInv'
<1>1. /\ pc[t].at = "negotiate" /\ p \in pc[t].adds /\ UNCHANGED <<external, shutting_down_, made, link>>
      /\ abandoned' = [abandoned EXCEPT ![p] = "unreachable"]
      /\ pc' = [pc EXCEPT ![t] = AfterNegotiation(t, p)]
  BY DEF NegotiateConnection
<1>2. ~shutting_down_ /\ abandoned \in [Publisher -> Faults]
  BY <1>1, AskingFacts, Typed DEF IInv, Faults
<1>3. /\ Rest(t, p) \in PcState /\ Rest(t, p).at \in {"negotiate", "idle"}
      /\ Rest(t, p).adds \subseteq pc[t].adds /\ Rest(t, p).drops = {}
      /\ Rest(t, p).at = "idle" => Rest(t, p) = Idle
      /\ pc' = [pc EXCEPT ![t] = Rest(t, p)]
  BY <1>1, RestFacts
<1>4. StayGivenUp
  BY <1>1, <1>2 DEF StayGivenUp, Faults
<1>5. Rest(t, p).at # "gone"
  BY <1>3
<1> QED BY <1>1, <1>2, <1>3, <1>4, <1>5, GoesOn

\* The call is entered.
LEMMA EnterKept ==
    ASSUME IInv, NEW t \in Subscriber, EnterPending(t) PROVE IInv'
<1>0. PICK a, p : a = pc[t].attempt /\ p = link[a].uri
  OBVIOUS
<1> DEFINE l == [link[a] EXCEPT !.pending = TRUE]
<1>1. /\ pc \in [Thread -> PcState] /\ t \in Thread /\ Place(t) /\ pc[t].at = "enter" /\ made \in Attempt \cup {0}
  BY Typed, ThreadSet DEF IInv, Threads, EnterPending
<1>2. a \in 1 .. made /\ p \in pc[t].adds /\ a \in Attempt /\ Entering(a)
  BY <1>0, <1>1, Attempts DEF Place, Entering
<1>3. /\ ~shutting_down_ /\ Excluded /\ p \in Publisher /\ \A u \in Subscriber : u # t => ~InSubscription(u)
  BY <1>2, AskingFacts
<1>4. /\ link[a] \in LinkState /\ LinkOK(a) /\ link \in [Attempt -> LinkState]
      /\ abandoned \in [Publisher -> Faults] /\ faults \in 0 .. MaxFaults
  BY <1>2, LinkFacts
<1>5. /\ l \in LinkState /\ l.uri = p /\ l.request = link[a].request /\ l.pending
      /\ l.listed = link[a].listed /\ l.dropping = link[a].dropping /\ l.needs_retry = link[a].needs_retry
      /\ l.timer = link[a].timer /\ l.transport = link[a].transport
  BY <1>0, <1>4 DEF LinkState
<1>6. /\ link' = [link EXCEPT ![a] = l] /\ pc' = [pc EXCEPT ![t] = AfterNegotiation(t, p)]
      /\ UNCHANGED <<external, shutting_down_, made, abandoned>>
  BY <1>0 DEF EnterPending
<1> HIDE DEF l
<1>7. /\ Rest(t, p) \in PcState /\ Rest(t, p).at \in {"negotiate", "idle"}
      /\ Rest(t, p).adds = pc[t].adds \ {p} /\ Rest(t, p).drops = {}
      /\ Rest(t, p).at = "idle" => Rest(t, p) = Idle
      /\ AfterNegotiation(t, p) = Rest(t, p)
  BY <1>2, RestFacts
<1>8. OnlyThread(t) /\ pc'[t] = Rest(t, p)
  BY <1>1, <1>6, <1>7 DEF OnlyThread
<1>9. OnlyLink(a) /\ link'[a] = l /\ StayGivenUp /\ Steady /\ faults' \in 0 .. MaxFaults
  BY <1>0, <1>2, <1>4, <1>5, <1>6 DEF OnlyLink, StayGivenUp, Steady, external
<1>10. TypeOK'
  BY <1>8, <1>9, Typed, Types DEF OnlyLink, OnlyThread, Steady, StayGivenUp, Faults, IInv
<1>11. Counted'
  <2>1. IsFiniteSet(pc[t].adds) /\ Cardinality(pc[t].adds) \in Nat /\ Planned(t) \in Nat /\ Lists \in Nat
        /\ Cardinality(Publisher) \in Nat /\ Len(updates) \in 0 .. MaxUpdates
    BY CountFacts
  <2>2. Cardinality(pc[t].adds \ {p}) = Cardinality(pc[t].adds) - 1
    <3>1. p \in pc[t].adds
      BY <1>2
    <3> QED BY <2>1, <3>1, FS_RemoveElement
  <2>3. Planned(t) = Cardinality(pc[t].adds) - 1 /\ Planned(t)' = Cardinality(pc[t].adds) - 1
    <3>1. pc'[t].at # "enter" /\ pc'[t].adds = pc[t].adds \ {p}
      BY <1>7, <1>8
    <3>2. Cardinality(pc'[t].adds) = Cardinality(pc[t].adds) - 1
      BY <2>2, <3>1
    <3>3. Planned(t)' = Cardinality(pc'[t].adds) - 0
      BY <3>1 DEF Planned
    <3>4. Planned(t) = Cardinality(pc[t].adds) - 1
      BY <1>1 DEF Planned
    <3> QED BY <2>1, <3>2, <3>3, <3>4
  <2>4. Lists' = Lists
    BY <1>1, <1>7, <1>8, <1>9, ListsSame DEF Steady
  <2>5. Planned(t)' = Planned(t)
    BY <2>3
  <2>6. Lists = Lists' + 0 /\ Planned(t)' <= Planned(t) + 0 * Cardinality(Publisher) /\ Planned(t)' \in Nat
    BY <2>1, <2>4, <2>5
  <2>7. UNCHANGED <<made, sent>> /\ Len(updates') \in Nat /\ Len(updates') <= Len(updates) /\ Lists' \in Nat
    BY <1>9, <2>1, <2>4 DEF Steady
  <2> QED BY <1>8, <2>6, <2>7, CountedStill DEF OnlyThread
<1>12. Place(t)'
  BY <1>7, <1>8, IdlePlace, ThreadSet DEF Place, StepsOf, Busy, Wires
<1>13. Excluded'
  <2>1. \A u \in Thread : u # t => pc'[u] = pc[u]
    BY <1>8 DEF OnlyThread
  <2>2. ~shutting_down_'
    BY <1>3, <1>6
  <2>3. \A u \in Subscriber : u # t => ~InSubscription(u)'
    BY <1>3, <2>1, ThreadSet DEF InSubscription
  <2>4. pc'["user"].at # "gone"
    BY <1>3, <1>7, <1>8, <2>1, ThreadSet DEF Excluded
  <2> QED BY <2>2, <2>3, <2>4, ThreadSet DEF Excluded
<1>14. Threads'
  BY <1>1, <1>2, <1>8, <1>9, <1>12, <1>13, ThreadsMove
<1>15. /\ \A b \in Attempt : b # a => (Entering(b)' <=> Entering(b))
       /\ \A b \in Attempt : Building(b)' <=> Building(b)
       /\ ~Entering(a)'
  <2>1. \A u \in Thread : u # t => pc'[u] = pc[u] /\ pc[u].at # "enter"
    <3>1. \A u \in Thread : u # t => pc'[u] = pc[u]
      BY <1>8 DEF OnlyThread
    <3>2. \A u \in Thread : u # t => pc[u].at # "enter"
      BY <1>3, ThreadSet DEF InSubscription, IInv, Threads, Place, StepsOf
    <3> QED BY <3>1, <3>2
  <2>2. \A b \in Attempt : ~Entering(b)'
    BY <1>7, <1>8, <2>1 DEF Entering
  <2>3. \A b \in Attempt : Entering(b) => b = a
    BY <1>0, <2>1 DEF Entering
  <2>4. \A b \in Attempt : Building(b)' <=> Building(b)
    BY <1>1, <1>7, <1>8, <2>1, ThreadSet DEF Building
  <2> QED BY <1>2, <2>2, <2>3, <2>4
<1>16. LinkOK(a)'
  <2>1. link[a].request # "done" /\ NoLinkYet(link[a])
    BY <1>2, <1>4 DEF LinkOK
  <2>2. ~(a > made) /\ a <= made
    BY <1>2, <1>4, LinkFacts
  <2>3. link[a].uri \in Publisher /\ link[a].request # "none"
    BY <1>2, <1>4, <2>2 DEF LinkOK
  <2>4. NoLinkYet(l)
    BY <1>5, <2>1 DEF NoLinkYet
  <2>5. ~Serving(a)
    BY <1>4, <2>1 DEF LinkOK
  <2>6. ~Serving(a)'
    BY <1>5, <1>9, <1>15, <1>2, <2>4, <2>5 DEF Serving, NoLinkYet
  <2> QED BY <1>5, <1>9, <1>15, <2>1, <2>2, <2>3, <2>4, <2>6, <1>0 DEF LinkOK, NoLinkYet, Steady
<1>17. \A b \in Attempt : LinkOK(b)'
  BY <1>2, <1>9, <1>15, <1>16, LinksKept DEF IInv, OnlyLink, Steady
<1>18. OneEach' /\ Unserved'
  <2>1. \A b \in Attempt : Bound(b)' => Bound(b) /\ link'[b].uri = link[b].uri
    <3> SUFFICES ASSUME NEW b \in Attempt, Bound(b)' PROVE Bound(b)
      BY <1>2, <1>9, LinksAgree
    <3>1. CASE b = a
      BY <1>2, <3>1 DEF Bound
    <3>2. CASE b # a
      BY <1>9, <1>15, <3>2 DEF Bound, OnlyLink
    <3> QED BY <3>1, <3>2
  <2>2. ASSUME NEW u \in Subscriber, NEW q \in pc'[u].adds, ~Asked(u, q)'
        PROVE  q \in pc[u].adds /\ ~Asked(u, q)
    <3>1. CASE u = t
      <4>1. q \in pc[t].adds /\ q # p
        BY <1>7, <1>8, <3>1
      <4> QED BY <1>0, <3>1, <4>1 DEF Asked
    <3>2. CASE u # t
      <4>1. pc'[u] = pc[u] /\ pc[u].at # "enter"
        BY <1>3, <1>8, <3>2, ThreadSet DEF OnlyThread, InSubscription
      <4> QED BY <4>1 DEF Asked
    <3> QED BY <3>1, <3>2
  <2> QED BY <2>1, <2>2, BindingsKept DEF IInv
<1> QED BY <1>10, <1>11, <1>14, <1>17, <1>18 DEF IInv

\* Thread t asks p for its port: a new attempt, of which there are enough.
LEMMA NegotiatedKept ==
    ASSUME IInv, NEW t \in Subscriber, NEW p \in Publisher, NegotiateConnection(t, p),
           network[p] # "unreachable"
    PROVE  IInv'
<1>0. PICK a : a = made + 1
  OBVIOUS
<1> DEFINE l == [Unused EXCEPT !.uri = p, !.request = "added"]
           s == [pc[t] EXCEPT !.at = "enter", !.attempt = a]
<1>1. /\ pc[t].at = "negotiate" /\ p \in pc[t].adds /\ made' = a /\ link' = [link EXCEPT ![a] = l]
      /\ abandoned' = [abandoned EXCEPT ![p] = "no"] /\ pc' = [pc EXCEPT ![t] = s]
      /\ UNCHANGED <<external, shutting_down_>>
  BY <1>0 DEF NegotiateConnection
<1>2. /\ ~shutting_down_ /\ t \in Thread /\ Place(t) /\ Excluded
      /\ \A u \in Subscriber : u # t => ~InSubscription(u)
      /\ pc \in [Thread -> PcState] /\ pc[t] \in PcState
  BY <1>1, AskingFacts
<1>3. TypeOK /\ made \in Nat /\ link \in [Attempt -> LinkState] /\ abandoned \in [Publisher -> Faults]
  BY Typed, CountFacts DEF IInv, Faults
<1>4. a \in Attempt /\ a \in 1 .. a
  <2> DEFINE n == Cardinality(Publisher)
  <2>1. /\ n \in Nat /\ Planned("user") \in Nat /\ Planned("rpc") \in Nat /\ Lists \in Nat /\ MaxUpdates \in Nat
        /\ IsFiniteSet(pc[t].adds) /\ Cardinality(pc[t].adds) \in Nat /\ Planned(t) \in Nat
        /\ made + Planned("user") + Planned("rpc") + Lists * n <= (MaxUpdates + 1) * n
    BY CountFacts, ThreadSet DEF IInv, Counted
  <2>2. Cardinality(pc[t].adds) # 0
    BY <1>1, <2>1, FS_EmptySet
  <2>3. Planned(t) = Cardinality(pc[t].adds)
    BY <1>1, <2>1 DEF Planned
  <2>4. 1 <= Planned("user") + Planned("rpc")
    <3>1. Planned("user") \in Nat /\ Planned("rpc") \in Nat /\ (t = "user" \/ t = "rpc")
      BY <2>1, ThreadSet
    <3>2. Planned(t) \in Nat /\ Planned(t) # 0
      BY <2>1, <2>2, <2>3
    <3>3. CASE t = "user"
      BY <3>1, <3>2, <3>3
    <3>4. CASE t = "rpc"
      BY <3>1, <3>2, <3>4
    <3> QED BY <3>1, <3>3, <3>4
  <2>5. Lists * n \in Nat /\ (MaxUpdates + 1) * n \in Nat
    BY <2>1
  <2>6. made + 1 <= (MaxUpdates + 1) * n
    <3> DEFINE x == Lists * n
               y == (MaxUpdates + 1) * n
    <3>1. x \in Nat /\ y \in Nat /\ made + Planned("user") + Planned("rpc") + x <= y
      BY <2>1, <2>5
    <3> HIDE DEF x, y
    <3>2. made + 1 <= y
      BY <1>3, <2>1, <2>4, <3>1
    <3> QED BY <3>2 DEF y
  <2> HIDE DEF n
  <2>7. Attempt = 1 .. (MaxUpdates + 1) * n /\ (MaxUpdates + 1) * n \in Nat
    BY Attempts DEF n
  <2> QED BY <1>0, <1>3, <2>6, <2>7
<1>5. link[a] = Unused /\ LinkOK(a)
  BY <1>0, <1>3, <1>4 DEF IInv, LinkOK
<1>6. /\ l \in LinkState /\ l.uri = p /\ l.request = "added" /\ ~l.pending /\ NoLinkYet(l)
  BY DEF LinkState, Unused, NoLinkYet
<1>7. s \in PcState /\ s.at = "enter" /\ s.attempt = a /\ s.adds = pc[t].adds /\ s.drops = pc[t].drops
  BY <1>2, <1>4 DEF PcState, Step
<1> HIDE DEF l, s
<1>8. OnlyThread(t) /\ pc'[t] = s
  BY <1>1, <1>2, <1>7 DEF OnlyThread
<1>9. link' \in [Attempt -> LinkState] /\ link'[a] = l /\ \A b \in Attempt : b # a => link'[b] = link[b]
  BY <1>1, <1>3, <1>4, <1>6
<1>10. TypeOK'
  <2>1. made' \in Attempt \cup {0} /\ abandoned' \in [Publisher -> Faults] /\ pc' \in [Thread -> PcState]
    BY <1>1, <1>3, <1>4, <1>8 DEF Faults, OnlyThread
  <2> QED BY <1>1, <1>3, <1>9, <2>1, Typed, Types DEF external, Faults
<1>11. Counted'
  <2> DEFINE n == Cardinality(Publisher)
  <2>1. /\ Planned("user") \in Nat /\ Planned("rpc") \in Nat /\ Lists \in Nat /\ MaxUpdates \in Nat /\ n \in Nat
        /\ Cardinality(pc[t].adds) \in Nat
        /\ made + Planned("user") + Planned("rpc") + Lists * n <= (MaxUpdates + 1) * n
        /\ Len(updates) <= sent
    BY CountFacts, ThreadSet DEF IInv, Counted
  <2>2. Planned(t) = Cardinality(pc[t].adds) /\ Planned(t)' = Cardinality(pc[t].adds) - 1
    BY <1>1, <1>7, <1>8, <2>1 DEF Planned
  <2>3. \A u \in Subscriber : u # t => Planned(u)' = Planned(u)
    BY <1>8, ThreadSet DEF Planned, OnlyThread
  <2>4. Lists' = Lists
    BY <1>1, <1>2, <1>7, <1>8, ListsSame DEF external
  <2>5. made' + Planned("user")' + Planned("rpc")' = made + Planned("user") + Planned("rpc")
    <3>1. CASE t = "user"
      <4>1. Planned("rpc")' = Planned("rpc") /\ Planned("user")' = Planned("user") - 1
        BY <2>1, <2>2, <2>3, <3>1, ThreadSet
      <4> QED BY <1>0, <1>1, <1>3, <2>1, <4>1
    <3>2. CASE t = "rpc"
      <4>1. Planned("user")' = Planned("user") /\ Planned("rpc")' = Planned("rpc") - 1
        BY <2>1, <2>2, <2>3, <3>2, ThreadSet
      <4> QED BY <1>0, <1>1, <1>3, <2>1, <4>1
    <3> QED BY <3>1, <3>2, ThreadSet
  <2>6. UNCHANGED <<updates, sent>>
    BY <1>1 DEF external
  <2> QED BY <2>1, <2>4, <2>5, <2>6 DEF Counted
<1>12. Place(t)'
  <2>1. \A b \in pc'[t].drops : link'[b].request = "done"
    <3>1. \A b \in pc[t].drops : b \in Attempt /\ link[b].request = "done"
      BY <1>2 DEF Place, PcState
    <3>2. link[a].request # "done"
      BY <1>5 DEF Unused
    <3> QED BY <1>7, <1>8, <1>9, <3>1, <3>2
  <2>2. pc'[t].at = "enter" /\ pc'[t].attempt \in 1 .. made' /\ link'[pc'[t].attempt].uri \in pc'[t].adds
    BY <1>1, <1>4, <1>6, <1>7, <1>8, <1>9
  <2> QED BY <2>1, <2>2, ThreadSet DEF Place, StepsOf, Busy, Wires
<1>13. \A u \in Thread : u # t => pc'[u] = pc[u] /\ Place(u)
  BY <1>8 DEF OnlyThread, IInv, Threads
<1>14. Excluded'
  <2>1. ~shutting_down_' /\ \A u \in Subscriber : u # t => ~InSubscription(u)'
    BY <1>1, <1>2, <1>13, ThreadSet DEF InSubscription
  <2>2. pc'["user"].at # "gone"
    BY <1>2, <1>7, <1>8, <1>13, ThreadSet DEF Excluded
  <2> QED BY <2>1, <2>2, ThreadSet DEF Excluded
<1>15. Threads'
  <2> SUFFICES ASSUME NEW u \in Thread, u # t PROVE Place(u)'
    BY <1>12, <1>14 DEF Threads
  <2>1. pc'[u] = pc[u] /\ Place(u) /\ pc[u] \in PcState
    BY <1>2, <1>13
  <2>2. (Busy(u)' <=> Busy(u)) /\ (Wires(u)' <=> Wires(u))
    BY <2>1 DEF Busy, Wires
  <2>3. \A b \in Attempt : link[b].request = "done" => link'[b].request = "done"
    BY <1>5, <1>9 DEF Unused
  <2>4. pc[u].attempt \in 1 .. made => /\ pc[u].attempt \in 1 .. made' /\ pc[u].attempt \in Attempt
                                       /\ pc[u].attempt # a
    BY <1>0, <1>1, <1>3, <1>4, Attempts
  <2>5. pc[u].at # "enter"
    BY <1>2, <2>1, ThreadSet DEF InSubscription, Place, StepsOf
  <2>6. \A b \in pc'[u].drops : link'[b].request = "done"
    BY <2>1, <2>3 DEF Place, PcState
  <2>7. Wires(u)' => pc'[u].attempt \in 1 .. made' /\ link'[pc'[u].attempt].request = "done"
    BY <2>1, <2>2, <2>3, <2>4 DEF Place
  <2> QED BY <2>1, <2>2, <2>5, <2>6, <2>7 DEF Place
<1>16. /\ \A b \in Attempt : Entering(b)' <=> b = a
       /\ \A b \in Attempt : ~Entering(b)
       /\ \A b \in Attempt : Building(b)' <=> Building(b)
  <2>1. \A u \in Thread : pc[u].at # "enter"
    BY <1>1, <1>2, <1>13, ThreadSet DEF InSubscription, Place, StepsOf
  <2>2. \A b \in Attempt : ~Entering(b)
    BY <2>1 DEF Entering
  <2>3. \A b \in Attempt : Entering(b)' <=> b = a
    BY <1>2, <1>7, <1>8, <1>13, <2>1 DEF Entering
  <2>4. \A b \in Attempt : Building(b)' <=> Building(b)
    BY <1>1, <1>2, <1>7, <1>8, <1>13, ThreadSet DEF Building
  <2> QED BY <2>2, <2>3, <2>4
<1>17. ~Bound(a) /\ \A b \in Attempt : Bound(b) => link[b].uri # p
  <2>1. ~Bound(a)
    BY <1>5, <1>16, <1>4 DEF Bound, LinkOK, Serving, Unused
  <2>2. ~Asked(t, p)
    BY <1>1 DEF Asked
  <2> QED BY <1>1, <2>1, <2>2 DEF IInv, Unserved
<1>18. ASSUME NEW b \in Attempt PROVE LinkOK(b)'
  <2>1. CASE b = a
    <3>1. link'[a].request = "added" /\ link'[a].uri = p /\ ~link'[a].pending /\ NoLinkYet(l)
      BY <1>6, <1>9
    <3>2. ~Serving(a)'
      <4>1. ~Building(a)'
        BY <1>4, <1>16, <1>17 DEF Bound
      <4> QED BY <1>6, <1>9, <4>1 DEF Serving, NoLinkYet
    <3>3. ~(a > made')
      BY <1>0, <1>1, <1>3
    <3>4. Entering(a)'
      BY <1>4, <1>16
    <3>5. NoLinkYet(link'[a])
      BY <1>9, <3>1
    <3> QED BY <2>1, <3>1, <3>2, <3>3, <3>4, <3>5 DEF LinkOK, NoLinkYet
  <2>2. CASE b # a
    <3>1. LinkOK(b) /\ link'[b] = link[b] /\ ~Entering(b) /\ ~Entering(b)' /\ (Building(b)' <=> Building(b))
      BY <1>9, <1>16, <2>2 DEF IInv
    <3>2. (b > made' => b > made) /\ (b <= made' => b <= made)
      BY <1>0, <1>1, <1>3, <2>2, LinkFacts
    <3>3. (Open(b)' <=> Open(b)) /\ (Serving(b)' <=> Serving(b)) /\ (shutting_down_' <=> shutting_down_)
      BY <1>1, <3>1 DEF Open, Serving
    <3>4. Serving(b) => Bound(b) /\ link[b].uri # p
      BY <1>17 DEF Serving, Bound
    <3>5. Serving(b) => (GivenUp(b)' <=> GivenUp(b))
      <4>1. Serving(b) => link[b].uri \in Publisher
        <5>1. Serving(b) => link[b].request # "none"
          BY <3>1 DEF LinkOK
        <5> QED BY <5>1, LinkFacts
      <4> QED BY <1>1, <1>3, <3>1, <3>4, <4>1 DEF GivenUp
    <3> QED BY <3>1, <3>2, <3>3, <3>5 DEF LinkOK
  <2> QED BY <2>1, <2>2
<1>19. \A b \in Attempt : b # a => (Bound(b)' <=> Bound(b)) /\ link'[b].uri = link[b].uri
  BY <1>9, <1>16 DEF Bound
<1>20. link'[a].uri = p
  BY <1>6, <1>9
<1>21. OneEach'
  BY <1>17, <1>19, <1>20 DEF IInv, OneEach
<1>22. Unserved'
  <2> SUFFICES ASSUME NEW u \in Subscriber, NEW q \in pc'[u].adds, ~Asked(u, q)',
                      NEW b \in Attempt, Bound(b)'
               PROVE  link'[b].uri # q
    BY DEF Unserved
  <2>1. CASE u = t
    <3>1. q \in pc[t].adds /\ q # p
      BY <1>7, <1>8, <1>20, <2>1 DEF Asked
    <3>2. ~Asked(t, q)
      BY <1>1 DEF Asked
    <3> QED BY <1>19, <1>20, <3>1, <3>2 DEF IInv, Unserved
  <2>2. CASE u # t
    <3>1. pc'[u] = pc[u] /\ ~InSubscription(u) /\ Place(u)
      BY <1>2, <1>13, <2>2, ThreadSet
    <3>2. pc[u].adds = {}
      BY <3>1, ThreadSet DEF Place, InSubscription, Busy
    <3> QED BY <3>1, <3>2
  <2> QED BY <2>1, <2>2
<1> QED BY <1>10, <1>11, <1>15, <1>18, <1>21, <1>22 DEF IInv

\* pubUpdate(): what is to be dropped and to be asked is found with the mutex held.
LEMMA PubUpdateKept ==
    ASSUME IInv, NEW t \in Subscriber, NEW pubs \in SUBSET Publisher, PubUpdate(t, pubs),
           pc[t].at \in {"start", "idle"}, UNCHANGED <<registered, sent, faults, network>>,
           updates' \in Seq(SUBSET Publisher), Len(updates') <= Len(updates), Len(updates') \in Nat,
           Lists' \in Nat, Lists = Lists' + 1
    PROVE  IInv'
<1> DEFINE s == IF shutting_down_ THEN Idle ELSE At("drop", Subtractions(pubs), Additions(pubs), 0)
<1>1. /\ MutexFree /\ pc' = [pc EXCEPT ![t] = s] /\ UNCHANGED <<shutting_down_, made, link, abandoned>>
  BY DEF PubUpdate
<1>2. /\ pc \in [Thread -> PcState] /\ t \in Thread /\ Place(t) /\ Excluded /\ link \in [Attempt -> LinkState]
      /\ abandoned \in [Publisher -> Faults] /\ Cardinality(Publisher) \in Nat
  BY Typed, ThreadSet, CountFacts DEF IInv, Threads, Faults
<1>3. pc["rpc"] = Idle
  <2>1. ~InSubscription("rpc") /\ Place("rpc")
    BY <1>1, ThreadSet DEF MutexFree, IInv, Threads
  <2> QED BY <2>1, ThreadSet DEF InSubscription, Place, StepsOf
<1>4. /\ \A a \in Attempt : ~Entering(a) /\ ~Building(a)
      /\ ~shutting_down_ => ~InSubscription("user")
  BY <1>1, <1>3, NobodyInside
<1>5. /\ At("drop", Subtractions(pubs), Additions(pubs), 0) \in PcState
      /\ At("drop", Subtractions(pubs), Additions(pubs), 0).at = "drop"
      /\ At("drop", Subtractions(pubs), Additions(pubs), 0).adds = Additions(pubs)
      /\ At("drop", Subtractions(pubs), Additions(pubs), 0).drops = Subtractions(pubs)
  <2>1. "drop" \in Step /\ Subtractions(pubs) \in SUBSET Attempt /\ Additions(pubs) \in SUBSET Publisher
        /\ 0 \in Attempt \cup {0}
    BY DEF Step, Subtractions, Additions
  <2> QED BY <2>1, PlaceTypes
<1>6. s \in PcState /\ s.adds \subseteq Additions(pubs) /\ s.drops \subseteq Subtractions(pubs)
      /\ (IF shutting_down_ THEN s = Idle ELSE s.at = "drop")
  BY <1>5, IdlePlace
<1>7. s.at \in {"drop", "idle"}
  BY <1>5, IdlePlace
<1> HIDE DEF s
<1>8. OnlyThread(t) /\ pc'[t] = s /\ StayGivenUp
  BY <1>1, <1>2, <1>6 DEF OnlyThread, StayGivenUp
<1>9. TypeOK'
  <2>1. pc' \in [Thread -> PcState] /\ Len(updates') <= MaxUpdates
    BY <1>8, CountFacts DEF OnlyThread
  <2> QED BY <1>1, <2>1, Typed, Types DEF IInv, Faults
<1>10. Counted'
  <2>1. Planned(t) = 0
    <3>1. pc[t].adds = {} /\ pc[t].at # "enter"
      BY <1>2 DEF Place, Busy
    <3> QED BY <3>1, FS_EmptySet DEF Planned
  <2>2. /\ IsFiniteSet(pc'[t].adds) /\ Cardinality(pc'[t].adds) \in Nat
        /\ Cardinality(pc'[t].adds) <= Cardinality(Publisher)
    <3>1. pc'[t].adds \in SUBSET Publisher
      BY <1>6, <1>8 DEF Additions
    <3> QED BY <3>1, FS_Subset, FS_CardinalityType, PublisherLinksAssumption
  <2>3. Planned(t)' = Cardinality(pc'[t].adds)
    <3>1. pc'[t].at # "enter"
      BY <1>7, <1>8
    <3> QED BY <2>2, <3>1 DEF Planned
  <2>4. Planned(t)' \in Nat /\ Planned(t)' <= Planned(t) + 1 * Cardinality(Publisher)
    BY <1>2, <2>1, <2>2, <2>3
  <2>5. UNCHANGED <<made, sent>>
    BY <1>1
  <2> QED BY <1>8, <2>4, <2>5, CountedStill DEF OnlyThread
<1>11. Place(t)'
  <2>1. \A a \in pc'[t].drops : link'[a].request = "done"
    <3> SUFFICES ASSUME NEW a \in Subtractions(pubs) PROVE link[a].request = "done"
      BY <1>1, <1>6, <1>8
    <3>1. a \in Attempt /\ link[a].listed
      BY DEF Subtractions
    <3>2. LinkOK(a)
      BY <3>1 DEF IInv
    <3> QED BY <3>1, <3>2 DEF LinkOK, NoLinkYet
  <2>2. s.at = "idle" => s = Idle
    BY <1>5, <1>6, IdlePlace
  <2> QED BY <1>7, <1>8, <2>1, <2>2, IdlePlace, ThreadSet DEF Place, StepsOf, Busy, Wires
<1>12. Excluded'
  <2>1. \A u \in Thread : u # t => pc'[u] = pc[u]
    BY <1>8 DEF OnlyThread
  <2>2. CASE shutting_down_
    <3>1. t = "rpc" /\ pc'["rpc"] = Idle
      BY <1>2, <1>6, <1>8, <2>2, ThreadSet DEF Excluded
    <3>2. ~InSubscription("rpc")'
      BY <3>1, IdlePlace DEF InSubscription
    <3> QED BY <1>1, <1>2, <2>1, <3>1, <3>2, ThreadSet DEF Excluded
  <2>3. CASE ~shutting_down_
    <3>1. \A u \in Subscriber : ~InSubscription(u)
      BY <1>3, <1>4, <2>3, IdlePlace, ThreadSet DEF InSubscription
    <3>2. \A u \in Subscriber : u # t => ~InSubscription(u)'
      BY <2>1, <3>1, ThreadSet DEF InSubscription
    <3>3. pc'["user"].at # "gone"
      BY <1>2, <1>7, <1>8, <2>1, <2>3, ThreadSet DEF Excluded
    <3> QED BY <1>1, <2>3, <3>2, <3>3, ThreadSet DEF Excluded
  <2> QED BY <2>2, <2>3
<1>13. \A p \in pc'[t].adds : \A a \in Attempt : Bound(a) => link[a].uri # p
  BY <1>4, <1>6, <1>8 DEF Additions, HasLink, IsPending, Bound
<1>14. UNCHANGED <<link, made, shutting_down_>>
  BY <1>1
<1>15. pc[t].at \notin {"enter", "initialize", "wire", "list"}
       /\ pc'[t].at \notin {"enter", "initialize", "wire", "list"}
  BY <1>7, <1>8
<1> QED BY <1>8, <1>9, <1>10, <1>11, <1>12, <1>13, <1>14, <1>15, Turned

LEMMA SubscribeKept ==
    ASSUME IInv, Subscribe PROVE IInv'
<1>1. /\ pc["user"].at = "start" /\ PubUpdate("user", registered) /\ UNCHANGED external
  BY DEF Subscribe
<1>2. /\ registered \in SUBSET Publisher /\ updates \in Seq(SUBSET Publisher) /\ Len(updates) \in Nat
      /\ "user" \in Thread /\ pc \in [Thread -> PcState] /\ "user" \in Subscriber /\ Lists \in Nat
      /\ sent \in 0 .. MaxUpdates /\ MaxUpdates \in Nat
  BY Typed, CountFacts, ThreadSet DEF IInv
<1>3. pc'["user"].at # "start"
  BY <1>2 DEF Subscribe, PubUpdate, At, Idle
<1>4. Lists = (MaxUpdates - sent) + Len(updates) + 1 /\ Lists' = (MaxUpdates - sent) + Len(updates) + 0
  BY <1>1, <1>3 DEF Lists, external
<1>5. Lists' \in Nat /\ Lists = Lists' + 1
  BY <1>2, <1>4
<1>6. /\ UNCHANGED <<registered, sent, faults, network>> /\ updates' \in Seq(SUBSET Publisher)
      /\ Len(updates') <= Len(updates) /\ Len(updates') \in Nat
  BY <1>1, <1>2 DEF external
<1> QED BY <1>1, <1>2, <1>5, <1>6, PubUpdateKept

LEMMA ReceiveKept ==
    ASSUME IInv, ReceiveUpdate PROVE IInv'
<1>1. /\ pc["rpc"] = Idle /\ updates # << >> /\ PubUpdate("rpc", Head(updates)) /\ updates' = Tail(updates)
      /\ UNCHANGED <<registered, sent, network, faults>>
  BY DEF ReceiveUpdate
<1>2. /\ updates \in Seq(SUBSET Publisher) /\ Len(updates) \in Nat
      /\ pc \in [Thread -> PcState] /\ "rpc" \in Subscriber /\ Lists \in Nat
      /\ sent \in 0 .. MaxUpdates /\ MaxUpdates \in Nat
  BY Typed, CountFacts, ThreadSet DEF IInv
<1>3. /\ Head(updates) \in SUBSET Publisher /\ updates' \in Seq(SUBSET Publisher)
      /\ Len(updates') = Len(updates) - 1 /\ Len(updates) # 0
  BY <1>1, <1>2, HeadTailProperties, EmptySeq
<1>4. pc'["user"] = pc["user"]
  BY <1>1, <1>2, ThreadSet DEF PubUpdate
<1>5. Lists = Lists' + 1 /\ Lists' \in Nat
  <2>1. PICK w \in {0, 1} : w = IF pc["user"].at = "start" THEN 1 ELSE 0
    OBVIOUS
  <2>2. Lists = (MaxUpdates - sent) + Len(updates) + w
    BY <2>1 DEF Lists
  <2>3. Lists' = (MaxUpdates - sent) + (Len(updates) - 1) + w
    BY <1>1, <1>3, <1>4, <2>1 DEF Lists
  <2> QED BY <1>2, <1>3, <2>2, <2>3
<1>6. Len(updates') <= Len(updates) /\ Len(updates') \in Nat
  BY <1>2, <1>3
<1>7. pc["rpc"].at \in {"start", "idle"}
  BY <1>1, IdlePlace
<1> QED BY <1>1, <1>2, <1>3, <1>5, <1>6, <1>7, PubUpdateKept
\* shutdown(): the flag is set and the whole list taken, with the mutex held.
LEMMA ShutdownKept ==
    ASSUME IInv, Shutdown PROVE IInv'
<1> DEFINE taken == {a \in Attempt : link[a].listed}
           s == At("drop", taken, {}, 0)
           off == [a \in Attempt |-> [link[a] EXCEPT !.listed = FALSE]]
<1>1. /\ pc["user"] = Idle /\ MutexFree /\ shutting_down_' = TRUE
      /\ pc' = [pc EXCEPT !["user"] = s] /\ link' = off /\ UNCHANGED <<external, made, abandoned>>
  BY DEF Shutdown
<1>2. /\ pc \in [Thread -> PcState] /\ "user" \in Thread /\ "user" \in Subscriber /\ Excluded
      /\ link \in [Attempt -> LinkState] /\ abandoned \in [Publisher -> Faults]
  BY Typed, ThreadSet DEF IInv, Threads, Faults
<1>3. pc["user"].at = "idle" /\ pc["user"].adds = {}
  BY <1>1, IdlePlace
<1>4. ~shutting_down_
  BY <1>2, <1>3 DEF Excluded
<1>5. pc["rpc"] = Idle
  <2>1. ~InSubscription("rpc") /\ Place("rpc")
    BY <1>1, ThreadSet DEF MutexFree, IInv, Threads
  <2> QED BY <2>1, ThreadSet DEF InSubscription, Place, StepsOf
<1>6. \A a \in Attempt : ~Entering(a) /\ ~Building(a)
  BY <1>1, <1>5, NobodyInside
<1>7. s \in PcState /\ s.at = "drop" /\ s.drops = taken /\ s.adds = {} /\ s.attempt = 0
  <2>1. "drop" \in Step /\ taken \in SUBSET Attempt /\ {} \in SUBSET Publisher /\ 0 \in Attempt \cup {0}
    BY DEF Step
  <2> QED BY <2>1, PlaceTypes
<1>8. ASSUME NEW a \in Attempt
      PROVE  /\ off[a] \in LinkState /\ ~off[a].listed /\ off[a].uri = link[a].uri
             /\ off[a].request = link[a].request /\ off[a].pending = link[a].pending
             /\ off[a].dropping = link[a].dropping /\ off[a].needs_retry = link[a].needs_retry
             /\ off[a].timer = link[a].timer /\ off[a].transport = link[a].transport
             /\ off[a].hears = link[a].hears /\ off[a].header = link[a].header
  <2>1. link[a] \in LinkState /\ off[a] = [link[a] EXCEPT !.listed = FALSE]
    BY <1>2
  <2> QED BY <2>1 DEF LinkState
<1>9. off \in [Attempt -> LinkState]
  BY <1>8
<1> HIDE DEF s, off
<1>10. OnlyThread("user") /\ pc'["user"] = s /\ StayGivenUp
  BY <1>1, <1>2, <1>7 DEF OnlyThread, StayGivenUp
<1>11. TypeOK'
  <2>1. pc' \in [Thread -> PcState] /\ shutting_down_' \in BOOLEAN /\ link' \in [Attempt -> LinkState]
    BY <1>1, <1>9, <1>10 DEF OnlyThread
  <2> QED BY <1>1, <1>2, <2>1, Typed, Types DEF IInv, external, Faults
<1>12. Counted'
  <2>1. Planned("user")' \in Nat /\ Planned("user")' <= Planned("user")
    BY <1>2, <1>3, <1>7, <1>10, Fewer
  <2>2. Lists' = Lists /\ UNCHANGED <<made, sent, updates>>
    BY <1>1, <1>2, <1>3, <1>7, <1>10, ListsSame DEF external
  <2>3. /\ Len(updates') \in Nat /\ Len(updates') <= Len(updates) /\ Lists' \in Nat /\ Lists = Lists' + 0
        /\ Cardinality(Publisher) \in Nat /\ Planned("user") \in Nat
    BY <1>2, <2>2, CountFacts
  <2>4. Planned("user")' <= Planned("user") + 0 * Cardinality(Publisher)
    BY <2>1, <2>3
  <2> QED BY <1>2, <1>10, <2>1, <2>2, <2>3, <2>4, CountedStill
<1>13. \A a \in Attempt : link[a].listed => link[a].request = "done"
  <2> SUFFICES ASSUME NEW a \in Attempt, link[a].listed PROVE link[a].request = "done"
    OBVIOUS
  <2>1. LinkOK(a)
    BY DEF IInv
  <2> QED BY <2>1 DEF LinkOK, NoLinkYet
<1>14. Threads'
  <2>1. Excluded'
    <3>1. pc'["rpc"] = Idle
      BY <1>5, <1>10, ThreadSet DEF OnlyThread
    <3>2. ~InSubscription("rpc")'
      BY <3>1, IdlePlace DEF InSubscription
    <3> QED BY <1>1, <1>7, <1>10, <3>1, <3>2 DEF Excluded
  <2>2. Place("user")'
    <3>1. \A a \in pc'["user"].drops : link'[a].request = "done"
      BY <1>1, <1>7, <1>8, <1>10, <1>13
    <3> QED BY <1>7, <1>10, <3>1 DEF Place, StepsOf, Busy, Wires
  <2>3. ASSUME NEW u \in Thread, u # "user" PROVE Place(u)'
    <3>1. pc'[u] = pc[u] /\ Place(u) /\ pc[u] \in PcState /\ made' = made
      BY <1>1, <1>2, <1>10, <2>3 DEF OnlyThread, IInv, Threads
    <3>2. (Busy(u)' <=> Busy(u)) /\ (Wires(u)' <=> Wires(u))
      BY <3>1 DEF Busy, Wires
    <3>3. pc[u].attempt \in 1 .. made => pc[u].attempt \in Attempt
      BY <3>1, Attempts, Typed DEF IInv
    <3>4. \A b \in Attempt : link'[b].request = link[b].request /\ link'[b].uri = link[b].uri
      BY <1>1, <1>8
    <3> QED BY <3>1, <3>2, <3>3, <3>4 DEF Place, PcState
  <2> QED BY <2>1, <2>2, <2>3 DEF Threads
<1>15. \A a \in Attempt : ~Entering(a)' /\ ~Building(a)'
  <2>1. \A u \in Thread : u # "user" => pc'[u] = pc[u]
    BY <1>10 DEF OnlyThread
  <2> QED BY <1>6, <1>7, <1>10, <2>1, ThreadSet DEF Entering, Building
<1>16. ASSUME NEW a \in Attempt PROVE LinkOK(a)'
  <2>1. LinkOK(a) /\ ~Entering(a) /\ ~Building(a) /\ ~Entering(a)' /\ ~Building(a)'
    BY <1>6, <1>15 DEF IInv
  <2>2. /\ ~link'[a].listed /\ link'[a].uri = link[a].uri
        /\ link'[a].request = link[a].request /\ link'[a].pending = link[a].pending
        /\ link'[a].dropping = link[a].dropping /\ link'[a].needs_retry = link[a].needs_retry
        /\ link'[a].timer = link[a].timer /\ link'[a].transport = link[a].transport
    BY <1>1, <1>8
  <2>3. link[a] = Unused => link'[a] = Unused
    BY <1>1, <1>8, <1>9 DEF LinkState, Unused
  <2>4. ~Serving(a)' /\ (Open(a)' <=> Open(a)) /\ (NoLinkYet(link[a]) => NoLinkYet(link'[a])) /\ made' = made
    BY <1>1, <2>1, <2>2 DEF Serving, Open, NoLinkYet
  <2> QED BY <1>1, <2>1, <2>2, <2>3, <2>4 DEF LinkOK
<1>17. OneEach' /\ Unserved'
  <2>1. \A b \in Attempt : Bound(b)' => Bound(b) /\ link'[b].uri = link[b].uri
    BY <1>1, <1>8, <1>15 DEF Bound
  <2>2. ASSUME NEW u \in Subscriber, NEW q \in pc'[u].adds, ~Asked(u, q)'
        PROVE  q \in pc[u].adds /\ ~Asked(u, q)
    <3>1. pc'[u].adds = {}
      BY <1>5, <1>7, <1>10, IdlePlace, ThreadSet DEF OnlyThread
    <3> QED BY <3>1, <2>2
  <2> QED BY <2>1, <2>2, BindingsKept DEF IInv
<1> QED BY <1>11, <1>12, <1>14, <1>16, <1>17 DEF IInv
-----------------------------------------------------------------------------
(* The theorem *)

LEMMA InitIInv == Init => IInv
<1> SUFFICES ASSUME Init PROVE IInv
  OBVIOUS
<1> DEFINE first == At("start", {}, {}, 0)
<1>1. /\ registered \in SUBSET Publisher /\ updates = << >> /\ sent = 0
      /\ network \in [Publisher -> {"up", "refused"}] /\ faults = 0 /\ shutting_down_ = FALSE
      /\ pc = [t \in Thread |-> IF t = "user" THEN first ELSE Idle]
      /\ made = 0 /\ link = [a \in Attempt |-> Unused] /\ abandoned = [p \in Publisher |-> "no"]
  BY DEF Init
<1>2. first \in PcState /\ first.at = "start" /\ first.drops = {} /\ first.adds = {} /\ first.attempt = 0
  <2>1. "start" \in Step /\ {} \in SUBSET Attempt /\ {} \in SUBSET Publisher /\ 0 \in Attempt \cup {0}
    BY DEF Step
  <2> QED BY <2>1, PlaceTypes
<1> HIDE DEF first
<1>3. /\ pc["user"] = first /\ pc["rpc"] = Idle /\ pc["queue"] = Idle /\ pc \in [Thread -> PcState]
  BY <1>1, <1>2, IdlePlace, ThreadSet
<1>4. \A t \in Thread : pc[t].at \in {"start", "idle"} /\ pc[t].adds = {} /\ pc[t].drops = {}
  BY <1>2, <1>3, IdlePlace, ThreadSet
<1>5. MaxUpdates \in Nat /\ MaxFaults \in Nat /\ Cardinality(Publisher) \in Nat
  BY Attempts, PublisherLinksAssumption
<1>6. updates \in Seq(SUBSET Publisher) /\ Len(updates) = 0
  BY <1>1, EmptySeq
<1>7. TypeOK
  <2>1. Unused \in LinkState
    BY DEF Unused, LinkState
  <2>2. link \in [Attempt -> LinkState] /\ network \in [Publisher -> {"up", "refused", "unreachable"}]
    BY <1>1, <2>1
  <2>3. abandoned \in [Publisher -> {"no", "unreachable", "unheard", "refused", "call"}]
    BY <1>1
  <2>4. sent \in 0 .. MaxUpdates /\ faults \in 0 .. MaxFaults /\ Len(updates) <= MaxUpdates
    BY <1>1, <1>5, <1>6
  <2> QED BY <1>1, <1>3, <1>6, <2>2, <2>3, <2>4 DEF TypeOK, PcState
<1>8. Threads
  <2>1. Excluded
    BY <1>1, <1>2, <1>3, IdlePlace DEF Excluded, InSubscription
  <2>2. Place("user") /\ Place("rpc") /\ Place("queue")
    BY <1>2, <1>3, IdlePlace DEF Place, StepsOf, Busy, Wires
  <2> QED BY <2>1, <2>2, ThreadSet DEF Threads
<1>9. Counted
  <2>1. Planned("user") = 0 /\ Planned("rpc") = 0
    BY <1>4, ThreadSet, FS_EmptySet DEF Planned
  <2>2. Lists = MaxUpdates + 1
    BY <1>1, <1>2, <1>3, <1>5, <1>6 DEF Lists
  <2>3. (MaxUpdates + 1) * Cardinality(Publisher) \in Nat
    BY Attempts
  <2> QED BY <1>1, <1>6, <2>1, <2>2, <2>3 DEF Counted
<1>10. \A a \in Attempt : ~Entering(a) /\ ~Building(a) /\ ~Bound(a) /\ link[a] = Unused
  <2>1. \A a \in Attempt : ~Entering(a) /\ ~Building(a)
    BY <1>4, ThreadSet DEF Entering, Building
  <2> QED BY <1>1, <2>1 DEF Bound, Unused
<1>11. \A a \in Attempt : LinkOK(a)
  <2> SUFFICES ASSUME NEW a \in Attempt PROVE LinkOK(a)
    OBVIOUS
  <2>1. ~(a <= made)
    BY <1>1, Attempts
  <2>2. link[a] = Unused /\ ~Entering(a) /\ ~Serving(a)
    BY <1>10 DEF Serving, Bound
  <2> QED BY <2>1, <2>2 DEF LinkOK, NoLinkYet, Unused
<1>12. OneEach /\ Unserved
  BY <1>4, <1>10, ThreadSet DEF OneEach, Unserved
<1> QED BY <1>7, <1>8, <1>9, <1>11, <1>12 DEF IInv

LEMMA SubscriptionKept ==
    ASSUME IInv, NEW t \in Subscriber, SubscriptionStep(t) PROVE IInv'
<1>1. CASE DropSubtraction(t)
  BY <1>1, DropKept
<1>2. CASE DropsDone(t)
  BY <1>2, DropsDoneKept
<1>3. CASE EnterPending(t)
  BY <1>3, EnterKept
<1>4. ASSUME NEW p \in Publisher, NegotiateConnection(t, p) PROVE IInv'
  BY <1>4, UnreachableKept, NegotiatedKept
<1> QED BY <1>1, <1>2, <1>3, <1>4 DEF SubscriptionStep

LEMMA NextIInv == IInv /\ [Next]_vars => IInv'
<1> SUFFICES ASSUME IInv, [Next]_vars PROVE IInv'
  OBVIOUS
<1>1. CASE UserThread
  BY <1>1, SubscribeKept, SubscriptionKept, ShutdownKept, ThreadSet DEF UserThread
<1>2. CASE RpcThread
  <2>1. CASE ReceiveUpdate \/ SubscriptionStep("rpc") \/ AddPublisherLink
    BY <2>1, ReceiveKept, SubscriptionKept, AddedKept, ThreadSet
  <2>2. CASE InitializeConnection("rpc") \/ InitializeLink("rpc")
    BY <2>2, WiredKept
  <2>3. ASSUME NEW a \in Attempt, WatchCall(a) \/ PendingConnectionDone(a) PROVE IInv'
    BY <2>3, WatchCallKept, DoneKept
  <2> QED BY <1>2, <2>1, <2>2, <2>3 DEF RpcThread
<1>3. CASE QueueThread
  <2>1. CASE InitializeConnection("queue") \/ InitializeLink("queue")
    BY <2>1, WiredKept
  <2>2. CASE EndRetry
    BY <2>2, EndRetryKept
  <2>3. ASSUME NEW a \in Attempt, OnRetryTimer(a) PROVE IInv'
    BY <2>3, RetryKept
  <2> QED BY <1>3, <2>1, <2>2, <2>3 DEF QueueThread
<1>4. ASSUME NEW a \in Attempt, PollThread(a) \/ Disconnected(a) PROVE IInv'
  BY <1>4, ConnectedKept, OnHeaderReceivedKept, OnHeaderRefusedKept, DisconnectedKept DEF PollThread
<1>5. ASSUME NEW a \in Attempt, PublisherNode(a) \/ CallFailed(a) PROVE IInv'
  BY <1>5, PublisherAnswersKept, CallAnsweredKept, CallFailedKept DEF PublisherNode
<1>6. ASSUME NEW p \in Publisher, RegistryChanges(p) \/ NetworkChanges(p) PROVE IInv'
  BY <1>6, RegistryKept, NetworkKept
<1>7. CASE UNCHANGED vars
  <2>1. UNCHANGED <<registered, updates, sent, network, faults, shutting_down_, pc, made, link, abandoned>>
    BY <1>7 DEF vars, external
  <2>2. TypeOK'
    BY <2>1 DEF IInv, TypeOK
  <2>3. Counted'
    BY <2>1 DEF IInv, Counted, Planned, Lists
  <2> QED BY <2>1, <2>2, <2>3, QuietKept
<1> QED BY <1>1, <1>2, <1>3, <1>4, <1>5, <1>6, <1>7 DEF Next

\* The invariant says what was to be shown.
LEMMA InvariantSuffices == IInv => OnePerPublisher
<1> SUFFICES ASSUME IInv PROVE OnePerPublisher
  OBVIOUS
<1>1. TypeOK /\ OneEach /\ \A a \in Attempt : LinkOK(a)
  BY DEF IInv
<1>2. DeadLinkIsRetried
  BY <1>1 DEF DeadLinkIsRetried, LinkOK, Serving, GivenUp
<1>3. ASSUME NEW p \in Publisher PROVE Cardinality(Towards(p)) <= 1
  <2>1. \A a, b \in Towards(p) : a = b
    BY <1>1 DEF Towards, OneEach, Bound
  <2>2. CASE Towards(p) = {}
    BY <2>2, FS_EmptySet
  <2>3. CASE Towards(p) # {}
    <3>1. PICK a : Towards(p) = {a}
      BY <2>1, <2>3
    <3>2. Cardinality({a}) = 1
      BY FS_Singleton
    <3> QED BY <3>1, <3>2
  <2> QED BY <2>2, <2>3
<1>4. \A a \in Attempt : link[a].request = "done" /\ ~shutting_down_ => ~link[a].pending
  BY <1>1 DEF LinkOK
<1> QED BY <1>1, <1>2, <1>3, <1>4 DEF OnePerPublisher

\* No more than one attempt is ever on its way to a publisher or connected to it,
\* so that none of its messages comes twice; an answered call does not stay in
\* pending_connections_, where it would keep every later list from asking that
\* publisher again; and a link whose connection is gone has a timer set that will
\* connect it again, unless its publisher was given up.  So it is however
\* pubUpdate(), pendingConnectionDone(), onRetryTimer(), onConnectionDropped() and
\* shutdown() interleave, for any number of publishers, lists and faults.
THEOREM PublisherIsConnectedOnce == Spec => []OnePerPublisher
<1>1. Init => IInv
  BY InitIInv
<1>2. IInv /\ [Next]_vars => IInv'
  BY NextIInv
<1>3. IInv => OnePerPublisher
  BY InvariantSuffices
<1> QED BY <1>1, <1>2, <1>3, PTL DEF Spec
-----------------------------------------------------------------------------
(* XmlRpc.                                                                     *)

\* The units of s are those of message k that follow the first `from'.
Piece(s, k, from) == \A n \in 1 .. Len(s) : s[n] = <<k, from + n>>

Active(t) == thread[t].at \notin {"idle", "freed"}
Known == ToSet(clients_)
Live(f) == wire[f].server \in {"queued", "open"}

Unit == Nat \X Nat
ClientRecord ==
    [in_use_ : BOOLEAN, state : {"NO_CONNECTION", "WRITE_REQUEST", "READ", "IDLE"}, fd : Conn \cup {None},
     eof : BOOLEAN, left : Seq(Unit), got : Seq(Unit), attempts : Nat, watched : BOOLEAN]
WireRecord ==
    [up : Seq(Unit), down : Seq(Unit), client : BOOLEAN, server : {"none", "queued", "open", "closed"}, reset : BOOLEAN]
CallRecord == [wait : BOOLEAN, executed : Nat, disturbed : Nat, answer : Nat, result : {"none", "true", "false"}]
PeerRecord == [got : Seq(Unit), left : Seq(Unit)]
ThreadRecord == [at : {"idle", "call", "work", "worked", "executed", "sleep", "freed"}, call : Nat, client : Client \cup {None}]

RpcTypes ==
    /\ thread \in [Caller -> ThreadRecord] /\ call \in Seq(CallRecord)
    /\ clients_ \in Seq(Client) /\ \A m, n \in DOMAIN clients_ : clients_[m] = clients_[n] => m = n
    /\ client \in [Client -> ClientRecord]
    /\ call_mutex \in Caller \cup {None} /\ rpc_shutting_down_ \in BOOLEAN
    /\ wire \in [Conn -> WireRecord] /\ peer \in [Conn -> PeerRecord]
    /\ \A f \in Conn : Len(wire[f].up) <= Room /\ Len(wire[f].down) <= Room

\* Who calls, with which client.
CallersOK ==
    /\ \A t \in Caller : /\ ThreadAt(t, "idle") => thread[t] = Nowhere
                         /\ ThreadAt(t, "work") \/ ThreadAt(t, "worked") => call_mutex = t
                         /\ Active(t) => /\ thread[t].call \in DOMAIN call /\ InProgress(thread[t].call)
                                         /\ thread[t].client \in Known /\ InUse(thread[t].client)
                                         /\ ~ThreadAt(t, "executed") => call[thread[t].call].answer = None
    /\ \A t, u \in Caller : Active(t) /\ Active(u) /\ t # u =>
          thread[t].client # thread[u].client /\ thread[t].call # thread[u].call
    /\ \A i \in Known : InUse(i) => \E t \in Caller : Active(t) /\ thread[t].client = i
    /\ \A i \in Client \ Known : client[i] = NewClient

Answers ==
    \A k \in DOMAIN call :
          /\ call[k].answer \in {None, k}
          /\ call[k].answer = k => call[k].executed >= 1
          /\ call[k].result = "true" => call[k].answer = k \/ rpc_shutting_down_
          /\ call[k].result = "false" => ~call[k].wait \/ rpc_shutting_down_

\* The clients' connections.
ClientsOK ==
    /\ \A i \in Client :
          LET c == client[i] IN
          /\ c.fd = None <=> c.state = "NO_CONNECTION"
          /\ c.fd # None => wire[c.fd].client /\ wire[c.fd].server # "none"
          /\ c.watched => c.state \in {"WRITE_REQUEST", "READ"}
          /\ c.state = "IDLE" =>
                /\ wire[c.fd].server \in {"open", "closed"} /\ wire[c.fd].down = <<>>
                /\ Live(c.fd) => wire[c.fd].up = <<>> /\ peer[c.fd] = NewPeer
    /\ \A i, j \in Client : i # j /\ client[i].fd = client[j].fd => client[i].fd = None

\* What the server gets is a request, or the beginning of one.
Requests ==
    \A f \in Conn :
        /\ wire[f].reset => wire[f].server = "closed"
        /\ wire[f].server # "open" => peer[f] = NewPeer
        /\ peer[f].left # <<>> => peer[f].got = <<>>
        /\ Live(f) => \E k \in DOMAIN call :
              /\ Piece(peer[f].got, k, 0) /\ Piece(wire[f].up, k, Len(peer[f].got))
              /\ Len(peer[f].got) < Size /\ Len(peer[f].got) + Len(wire[f].up) <= Size

\* The request of call k is on its way, and then the response is: c, s and p are the client,
\* its connection and the server's end, and x is how often the call has been executed.
Sending(c, k, s, p) ==
    /\ s.down = <<>> /\ c.left # <<>>
    /\ s.server \in {"queued", "open"} =>
          /\ p.left = <<>>
          /\ Piece(p.got, k, 0) /\ Piece(s.up, k, Len(p.got)) /\ Piece(c.left, k, Len(p.got) + Len(s.up))
          /\ Len(p.got) + Len(s.up) + Len(c.left) = Size
Requested(c, k, s, p) ==
    /\ c.got = <<>> /\ s.down = <<>> /\ p.left = <<>>
    /\ Piece(p.got, k, 0) /\ Piece(s.up, k, Len(p.got))
    /\ Len(p.got) + Len(s.up) = Size
Answering(c, k, s, p, x) ==
    /\ s.server = "open" /\ p.got = <<>> /\ s.up = <<>> /\ Piece(p.left, k, Len(c.got) + Len(s.down))
    /\ Len(c.got) + Len(s.down) + Len(p.left) = Size
    /\ x >= 1
Awaiting(c, k, s, p, x) ==
    /\ Piece(c.got, k, 0) /\ Piece(s.down, k, Len(c.got)) /\ Len(c.got) + Len(s.down) <= Size
    /\ s.server \in {"queued", "open"} => Requested(c, k, s, p) \/ Answering(c, k, s, p, x)
    /\ c.got # <<>> \/ s.down # <<>> => x >= 1
Received(c, k, x) == Piece(c.got, k, 0) /\ Len(c.got) = Size /\ x >= 1
Exchanging(c, k, s, p, x) ==
    /\ c.watched /\ c.state = "WRITE_REQUEST" => Sending(c, k, s, p)
    /\ c.watched /\ c.state = "READ" => Awaiting(c, k, s, p, x)
    /\ c.state = "IDLE" => Received(c, k, x)

Exchange ==
    \A t \in Caller :
        /\ ThreadAt(t, "work") =>
              LET c == client[thread[t].client]
                  k == thread[t].call
              IN  Exchanging(c, k, wire[c.fd], peer[c.fd], call[k].executed)
        /\ ThreadAt(t, "worked") => client[thread[t].client].watched

\* The connections on which the server may still execute call k.
Sends(t, k, f) ==
    /\ ThreadAt(t, "work") /\ thread[t].call = k
    /\ LET c == client[thread[t].client] IN c.watched /\ c.state = "WRITE_REQUEST" /\ c.fd = f
Carries(k, f) == \/ peer[f].got # <<>> /\ peer[f].got[1][1] = k
                 \/ wire[f].up # <<>> /\ wire[f].up[1][1] = k
Carrying(k) == {f \in Conn : Live(f) /\ (Carries(k, f) \/ \E t \in Caller : Sends(t, k, f))}

\* A thread that will have to send again, if at all.
BrokenOff(t) ==
    \/ thread[t].at \in {"call", "sleep", "worked"}
    \/ ThreadAt(t, "executed") /\ call[thread[t].call].answer = None
    \/ /\ ThreadAt(t, "work")
       /\ LET c == client[thread[t].client]
          IN  IF c.watched THEN wire[c.fd].server = "closed" ELSE c.state # "IDLE"

Executions ==
    /\ \A k \in DOMAIN call :
          IsFiniteSet(Carrying(k)) /\ call[k].executed + Cardinality(Carrying(k)) <= 1 + call[k].disturbed
    /\ \A t \in Caller : BrokenOff(t) =>
          LET k == thread[t].call IN call[k].executed + Cardinality(Carrying(k)) <= call[k].disturbed

XInv == RpcTypes /\ CallersOK /\ Answers /\ ClientsOK /\ Requests /\ Exchange /\ Executions
-----------------------------------------------------------------------------
(* Units, and what may be executed.                                             *)

LEMMA Numbers ==
    /\ None = 0 /\ Size = 3 /\ Room \in Nat \ {0}
    /\ \A t \in Caller : t \in Nat /\ t # None
    /\ \A i \in Client : i \in Nat /\ i # None
    /\ \A f \in Conn : f \in Nat /\ f # None
BY XmlRpcAssumption DEF None, Size

LEMMA MessageIs ==
    ASSUME NEW k \in Nat
    PROVE  Message(k) \in Seq(Unit) /\ Len(Message(k)) = Size /\ Piece(Message(k), k, 0)
BY DEF Message, Size, Unit, Piece

LEMMA Joined ==
    ASSUME NEW s \in Seq(Unit), NEW t \in Seq(Unit)
    PROVE  s \o t \in Seq(Unit) /\ Len(s \o t) = Len(s) + Len(t) /\ Len(s) \in Nat /\ Len(t) \in Nat
BY ConcatProperties, LenProperties

LEMMA PieceJoin ==
    ASSUME NEW s \in Seq(Unit), NEW t \in Seq(Unit), NEW k \in Nat, NEW n \in Nat,
           Piece(s, k, n), Piece(t, k, n + Len(s))
    PROVE  s \o t \in Seq(Unit) /\ Len(s \o t) = Len(s) + Len(t) /\ Piece(s \o t, k, n)
<1>1. s \o t \in Seq(Unit) /\ Len(s \o t) = Len(s) + Len(t)
  BY ConcatProperties
<1>2. ASSUME NEW m \in 1 .. Len(s) + Len(t) PROVE (s \o t)[m] = <<k, n + m>>
  <2>1. CASE m <= Len(s)
    BY <2>1, ConcatProperties DEF Piece
  <2>2. CASE m > Len(s)
    <3>1. (s \o t)[m] = t[m - Len(s)] /\ m - Len(s) \in 1 .. Len(t)
      BY <2>2, ConcatProperties
    <3>2. t[m - Len(s)] = <<k, n + Len(s) + (m - Len(s))>>
      BY <3>1 DEF Piece
    <3> QED BY <3>1, <3>2
  <2> QED BY <2>1, <2>2
<1> QED BY <1>1, <1>2 DEF Piece

LEMMA PieceCut ==
    ASSUME NEW s \in Seq(Unit), NEW k \in Nat, NEW n \in Nat, Piece(s, k, n), NEW m \in 0 .. Len(s)
    PROVE  /\ SubSeq(s, 1, m) \in Seq(Unit) /\ SubSeq(s, m + 1, Len(s)) \in Seq(Unit)
           /\ Len(SubSeq(s, 1, m)) = m /\ Len(SubSeq(s, m + 1, Len(s))) = Len(s) - m
           /\ Piece(SubSeq(s, 1, m), k, n) /\ Piece(SubSeq(s, m + 1, Len(s)), k, n + m)
<1>1. Len(s) \in Nat
  BY LenProperties
<1>2. SubSeq(s, 1, m) \in Seq(Unit) /\ Len(SubSeq(s, 1, m)) = m /\ Piece(SubSeq(s, 1, m), k, n)
  BY <1>1, SubSeqProperties DEF Piece
<1>3. /\ SubSeq(s, m + 1, Len(s)) \in Seq(Unit) /\ Len(SubSeq(s, m + 1, Len(s))) = Len(s) - m
      /\ \A j \in 1 .. Len(s) - m : SubSeq(s, m + 1, Len(s))[j] = s[m + j]
  BY <1>1, SubSeqProperties
<1>4. \A j \in 1 .. Len(s) - m : s[m + j] = <<k, (n + m) + j>>
  BY <1>1 DEF Piece
<1> QED BY <1>2, <1>3, <1>4 DEF Piece

\* Finite sets that lose or gain an element.
LEMMA FewerElements ==
    ASSUME NEW S, IsFiniteSet(S), NEW T, T \subseteq S
    PROVE  IsFiniteSet(T) /\ Cardinality(T) \in Nat /\ Cardinality(S) \in Nat /\ Cardinality(T) <= Cardinality(S)
BY FS_Subset, FS_CardinalityType

LEMMA OneMore ==
    ASSUME NEW S, IsFiniteSet(S), NEW x, NEW T, T \subseteq S \cup {x}
    PROVE  IsFiniteSet(T) /\ Cardinality(T) \in Nat /\ Cardinality(S) \in Nat /\ Cardinality(T) <= Cardinality(S) + 1
<1>0. Cardinality(S) \in Nat
  BY FS_CardinalityType
<1>1. /\ IsFiniteSet(S \cup {x})
      /\ Cardinality(S \cup {x}) = Cardinality(S) \/ Cardinality(S \cup {x}) = Cardinality(S) + 1
  BY FS_AddElement
<1>2. IsFiniteSet(T) /\ Cardinality(T) \in Nat /\ Cardinality(T) <= Cardinality(S \cup {x})
  BY <1>1, FewerElements
<1> QED BY <1>0, <1>1, <1>2

LEMMA OneLess ==
    ASSUME NEW S, IsFiniteSet(S), NEW x \in S, NEW T, T \subseteq S \ {x}
    PROVE  IsFiniteSet(T) /\ Cardinality(T) \in Nat /\ Cardinality(S) \in Nat /\ Cardinality(T) + 1 <= Cardinality(S)
<1>1. IsFiniteSet(S \ {x}) /\ Cardinality(S \ {x}) = Cardinality(S) - 1 /\ Cardinality(S) \in Nat
  BY FS_RemoveElement, FS_CardinalityType
<1> QED BY <1>1, FewerElements, FS_CardinalityType

LEMMA CallsAre == RpcTypes => \A k \in DOMAIN call : call[k] \in CallRecord /\ k \in Nat /\ k # None
<1> SUFFICES ASSUME RpcTypes, NEW k \in DOMAIN call PROVE call[k] \in CallRecord /\ k \in Nat /\ k # None
  OBVIOUS
<1>1. call \in Seq(CallRecord) /\ DOMAIN call = 1 .. Len(call) /\ Len(call) \in Nat
  BY LenProperties DEF RpcTypes
<1> QED BY <1>1, ElementOfSeq, Numbers

\* A step that gives the server nothing more to execute, and after which a thread has to send
\* again only if it had to before or was disturbed.
LEMMA Executed_ ==
    ASSUME RpcTypes, Executions, DOMAIN call' = DOMAIN call,
           \A k \in DOMAIN call : /\ call'[k].executed = call[k].executed
                                  /\ call'[k].disturbed \in Nat /\ call'[k].disturbed >= call[k].disturbed
                                  /\ Carrying(k)' \subseteq Carrying(k),
           \A t \in Caller : BrokenOff(t)' =>
              /\ thread'[t].call = thread[t].call /\ thread[t].call \in DOMAIN call
              /\ BrokenOff(t) \/ call'[thread[t].call].disturbed > call[thread[t].call].disturbed
    PROVE  Executions'
<1>1. \A k \in DOMAIN call : call[k].executed \in Nat /\ call[k].disturbed \in Nat
  BY CallsAre DEF CallRecord
<1>2. \A k \in DOMAIN call : IsFiniteSet(Carrying(k)) /\ call[k].executed + Cardinality(Carrying(k)) <= 1 + call[k].disturbed
  BY DEF Executions
<1>3. \A k \in DOMAIN call : IsFiniteSet(Carrying(k)') /\ Cardinality(Carrying(k)') \in Nat
                             /\ Cardinality(Carrying(k)) \in Nat /\ Cardinality(Carrying(k)') <= Cardinality(Carrying(k))
  BY <1>2, FewerElements
<1>4. ASSUME NEW k \in DOMAIN call'
      PROVE  IsFiniteSet(Carrying(k)') /\ call'[k].executed + Cardinality(Carrying(k)') <= 1 + call'[k].disturbed
  BY <1>1, <1>2, <1>3
<1>5. ASSUME NEW t \in Caller, BrokenOff(t)', NEW k, k = thread'[t].call
      PROVE  call'[k].executed + Cardinality(Carrying(k)') <= call'[k].disturbed
  <2>1. k \in DOMAIN call /\ thread[t].call = k
    BY <1>5
  <2>2. CASE BrokenOff(t)
    <3>1. call[k].executed + Cardinality(Carrying(k)) <= call[k].disturbed
      BY <2>1, <2>2 DEF Executions
    <3> QED BY <1>1, <1>3, <2>1, <3>1
  <2>3. CASE call'[k].disturbed > call[k].disturbed
    BY <1>1, <1>2, <1>3, <2>1, <2>3
  <2> QED BY <1>5, <2>1, <2>2, <2>3
<1> QED BY <1>4, <1>5 DEF Executions

\* The same, but a request that a connection carries is executed.
LEMMA ExecutedOnce ==
    ASSUME RpcTypes, Executions, DOMAIN call' = DOMAIN call, NEW k0 \in DOMAIN call, NEW f0 \in Carrying(k0),
           \A k \in DOMAIN call : /\ call'[k].executed = call[k].executed + (IF k = k0 THEN 1 ELSE 0)
                                  /\ call'[k].disturbed = call[k].disturbed
                                  /\ Carrying(k)' \subseteq Carrying(k),
           f0 \notin Carrying(k0)',
           \A t \in Caller : BrokenOff(t)' =>
              thread'[t].call = thread[t].call /\ thread[t].call \in DOMAIN call /\ BrokenOff(t)
    PROVE  Executions'
<1>1. \A k \in DOMAIN call : call[k].executed \in Nat /\ call[k].disturbed \in Nat
  BY CallsAre DEF CallRecord
<1>2. \A k \in DOMAIN call : IsFiniteSet(Carrying(k)) /\ call[k].executed + Cardinality(Carrying(k)) <= 1 + call[k].disturbed
  BY DEF Executions
<1>3. ASSUME NEW k \in DOMAIN call
      PROVE  /\ IsFiniteSet(Carrying(k)') /\ Cardinality(Carrying(k)') \in Nat /\ Cardinality(Carrying(k)) \in Nat
             /\ Cardinality(Carrying(k)') + (IF k = k0 THEN 1 ELSE 0) <= Cardinality(Carrying(k))
  <2>1. CASE k # k0
    <3>1. /\ IsFiniteSet(Carrying(k)') /\ Cardinality(Carrying(k)') \in Nat /\ Cardinality(Carrying(k)) \in Nat
          /\ Cardinality(Carrying(k)') <= Cardinality(Carrying(k))
      BY <1>2, FewerElements
    <3> QED BY <2>1, <3>1
  <2>2. CASE k = k0
    <3>1. Carrying(k0)' \subseteq Carrying(k0) \ {f0} /\ IsFiniteSet(Carrying(k0))
      BY <1>2
    <3>2. /\ IsFiniteSet(Carrying(k0)') /\ Cardinality(Carrying(k0)') \in Nat /\ Cardinality(Carrying(k0)) \in Nat
          /\ Cardinality(Carrying(k0)') + 1 <= Cardinality(Carrying(k0))
      BY <3>1, OneLess
    <3> QED BY <2>2, <3>2
  <2> QED BY <2>1, <2>2
<1>4. ASSUME NEW k \in DOMAIN call'
      PROVE  IsFiniteSet(Carrying(k)') /\ call'[k].executed + Cardinality(Carrying(k)') <= 1 + call'[k].disturbed
  BY <1>1, <1>2, <1>3
<1>5. ASSUME NEW t \in Caller, BrokenOff(t)', NEW k, k = thread'[t].call
      PROVE  call'[k].executed + Cardinality(Carrying(k)') <= call'[k].disturbed
  <2>1. k \in DOMAIN call /\ thread[t].call = k /\ BrokenOff(t)
    BY <1>5
  <2>2. call[k].executed + Cardinality(Carrying(k)) <= call[k].disturbed
    BY <2>1 DEF Executions
  <2> QED BY <1>1, <1>3, <2>1, <2>2
<1> QED BY <1>4, <1>5 DEF Executions

\* What is carried does not change when nothing is sent.
LEMMA Same ==
    ASSUME UNCHANGED <<thread, client, wire, peer>>, NEW k
    PROVE  Carrying(k)' = Carrying(k)
BY DEF Carrying, Carries, Sends, Live, ThreadAt

LEMMA HasCall ==
    ASSUME CallersOK, NEW t \in Caller, BrokenOff(t)
    PROVE  thread[t].call \in DOMAIN call
BY DEF CallersOK, BrokenOff, Active, ThreadAt

LEMMA Oftener ==
    ASSUME NEW c, NEW k, NEW s, NEW p, NEW x \in Nat, NEW y \in Nat, y >= x, Exchanging(c, k, s, p, x)
    PROVE  Exchanging(c, k, s, p, y)
<1>1. x >= 1 => y >= 1
  OBVIOUS
<1>2. Answering(c, k, s, p, x) => Answering(c, k, s, p, y)
  BY <1>1 DEF Answering
<1>3. Awaiting(c, k, s, p, x) => Awaiting(c, k, s, p, y)
  BY <1>1, <1>2 DEF Awaiting
<1>4. Received(c, k, x) => Received(c, k, y)
  BY <1>1 DEF Received
<1> QED BY <1>3, <1>4 DEF Exchanging

LEMMA WorksWith ==
    ASSUME RpcTypes, CallersOK, NEW t \in Caller, Active(t)
    PROVE  thread[t].client \in Known /\ thread[t].client \in Client /\ thread[t].call \in DOMAIN call
<1>1. Known \subseteq Client
  BY DEF RpcTypes, Known, ToSet
<1> QED BY <1>1 DEF CallersOK

\* An exchange needs to be looked at only on a connection that changes.
LEMMA OtherExchanges ==
    ASSUME XInv, NEW f \in Conn, UNCHANGED <<thread, client>>,
           \A g \in Conn : g # f => wire'[g] = wire[g] /\ peer'[g] = peer[g],
           \A k \in DOMAIN call : call'[k].executed \in Nat /\ call'[k].executed >= call[k].executed,
           \A t \in Caller : ThreadAt(t, "work") /\ client[thread[t].client].fd = f =>
              Exchanging(client[thread[t].client], thread[t].call, wire'[f], peer'[f], call'[thread[t].call].executed)
    PROVE  Exchange'
<1>0. \A t \in Caller : ThreadAt(t, "worked")' => client'[thread'[t].client].watched
  BY DEF XInv, Exchange, ThreadAt
<1> SUFFICES ASSUME NEW t \in Caller, ThreadAt(t, "work"), NEW c, c = client[thread[t].client], NEW k, k = thread[t].call
             PROVE  Exchanging(c, k, wire'[c.fd], peer'[c.fd], call'[k].executed)
  BY <1>0 DEF Exchange, ThreadAt
<1>1. k \in DOMAIN call /\ c \in ClientRecord /\ call[k].executed \in Nat
  <2>1. Active(t)
    BY DEF Active, ThreadAt
  <2>2. k \in DOMAIN call /\ thread[t].client \in Client
    BY <2>1, WorksWith DEF XInv
  <2> QED BY <2>2, CallsAre DEF XInv, RpcTypes, CallRecord
<1>2. Exchanging(c, k, wire[c.fd], peer[c.fd], call[k].executed)
  BY DEF XInv, Exchange
<1>3. CASE c.fd = None
  <2>1. c.state = "NO_CONNECTION" /\ ~c.watched
    <3>1. Active(t)
      BY DEF Active, ThreadAt
    <3> QED BY <1>3, <3>1, WorksWith DEF XInv, ClientsOK
  <2> QED BY <2>1 DEF Exchanging
<1>4. CASE c.fd = f
  BY <1>4
<1>5. CASE c.fd \in Conn \ {f}
  <2>1. wire'[c.fd] = wire[c.fd] /\ peer'[c.fd] = peer[c.fd]
    BY <1>5
  <2>2. call'[k].executed \in Nat /\ call'[k].executed >= call[k].executed
    BY <1>1
  <2> QED BY <1>1, <1>2, <2>1, <2>2, Oftener
<1> QED BY <1>1, <1>3, <1>4, <1>5 DEF ClientRecord

LEMMA ServerStartsInv ==
    ASSUME XInv, ServerStarts
    PROVE  XInv'
<1> USE Numbers DEF ServerStarts, ends, XInv
<1>1. RpcTypes'
  BY DEF RpcTypes, WireRecord, ClientRecord, ThreadRecord, CallRecord
<1>2. CallersOK'
  BY DEF CallersOK, Active, Known, InUse, InProgress, ThreadAt, Nowhere
<1>3. Answers'
  BY DEF Answers
<1>4. ClientsOK'
  BY DEF ClientsOK, Live
<1>5. Requests'
  BY DEF Requests, Live
<1>6. Exchange'
  BY DEF Exchange, ThreadAt
<1>7. Executions'
  <2>1. \A t \in Caller : BrokenOff(t)' => BrokenOff(t)
    BY DEF BrokenOff, ThreadAt
  <2> QED BY <2>1, HasCall, Same, Executed_, CallsAre DEF CallRecord
<1> QED BY <1>1, <1>2, <1>3, <1>4, <1>5, <1>6, <1>7 DEF XInv

LEMMA ManagerShutdownInv ==
    ASSUME XInv, ManagerShutdown
    PROVE  XInv'
<1> USE Numbers DEF ManagerShutdown, ends, XInv
<1>1. RpcTypes'
  BY DEF RpcTypes, WireRecord, ClientRecord, ThreadRecord, CallRecord
<1>2. CallersOK'
  BY DEF CallersOK, Active, Known, InUse, InProgress, ThreadAt, Nowhere
<1>3. Answers'
  BY DEF Answers
<1>4. ClientsOK'
  BY DEF ClientsOK, Live
<1>5. Requests'
  BY DEF Requests, Live
<1>6. Exchange'
  BY DEF Exchange, ThreadAt
<1>7. Executions'
  <2>1. \A t \in Caller : BrokenOff(t)' => BrokenOff(t)
    BY DEF BrokenOff, ThreadAt
  <2> QED BY <2>1, HasCall, Same, Executed_, CallsAre DEF CallRecord
<1> QED BY <1>1, <1>2, <1>3, <1>4, <1>5, <1>6, <1>7 DEF XInv

LEMMA CallChanges ==
    ASSUME RpcTypes, NEW k \in DOMAIN call, NEW r \in CallRecord, call' = [call EXCEPT ![k] = r]
    PROVE  /\ call' \in Seq(CallRecord) /\ DOMAIN call' = DOMAIN call /\ Len(call') = Len(call)
           /\ call'[k] = r /\ \A n \in DOMAIN call : n # k => call'[n] = call[n]
           /\ \A n \in DOMAIN call : call[n] \in CallRecord /\ call'[n] \in CallRecord
<1>1. call \in Seq(CallRecord)
  BY DEF RpcTypes
<1>2. call' \in Seq(CallRecord) /\ DOMAIN call' = DOMAIN call /\ Len(call') = Len(call)
  BY <1>1, ExceptSeq
<1>3. call'[k] = r /\ \A n \in DOMAIN call : n # k => call'[n] = call[n]
  OBVIOUS
<1> QED BY <1>1, <1>2, <1>3, ElementOfSeq

LEMMA CallExecuted ==
    ASSUME RpcTypes, NEW k \in DOMAIN call, call' = [call EXCEPT ![k].executed = @ + 1]
    PROVE  /\ call' \in Seq(CallRecord) /\ DOMAIN call' = DOMAIN call
           /\ \A n \in DOMAIN call : /\ call'[n].executed = call[n].executed + (IF n = k THEN 1 ELSE 0)
                                     /\ call[n].executed \in Nat /\ call'[n].executed \in Nat
                                     /\ call'[n].executed >= call[n].executed
                                     /\ call'[n].answer = call[n].answer /\ call'[n].result = call[n].result
                                     /\ call'[n].wait = call[n].wait /\ call'[n].disturbed = call[n].disturbed
<1>1. PICK c, r : c = call[k] /\ r = [c EXCEPT !.executed = @ + 1]
  OBVIOUS
<1>2. c \in CallRecord
  BY <1>1, CallsAre
<1>3. /\ r \in CallRecord /\ r.executed = c.executed + 1 /\ c.executed \in Nat
      /\ r.answer = c.answer /\ r.result = c.result /\ r.wait = c.wait /\ r.disturbed = c.disturbed
  BY <1>1, <1>2 DEF CallRecord
<1>4. call' = [call EXCEPT ![k] = r]
  BY <1>1
<1>5. /\ call' \in Seq(CallRecord) /\ DOMAIN call' = DOMAIN call
      /\ call'[k] = r /\ \A n \in DOMAIN call : n # k => call'[n] = call[n]
      /\ \A n \in DOMAIN call : call[n] \in CallRecord
  BY <1>3, <1>4, CallChanges
<1>6. \A n \in DOMAIN call : call[n].executed \in Nat
  BY <1>5 DEF CallRecord
<1> QED BY <1>1, <1>3, <1>5, <1>6

\* The server's end of a connection changes, and no answer is had by that.
ServerMoves(f, r, q) ==
    /\ r \in WireRecord /\ q \in PeerRecord
    /\ wire' = [wire EXCEPT ![f] = r] /\ peer' = [peer EXCEPT ![f] = q]
    /\ UNCHANGED <<thread, clients_, client, call_mutex, rpc_shutting_down_>>
    /\ Len(r.up) <= Room /\ Len(r.down) <= Room /\ r.client = wire[f].client /\ r.server # "none"
    /\ r.reset => r.server = "closed"
    /\ r.server # "open" => q = NewPeer
    /\ q.left # <<>> => q.got = <<>>
    /\ r.server \in {"queued", "open"} => \E k \in DOMAIN call :
          /\ Piece(q.got, k, 0) /\ Piece(r.up, k, Len(q.got))
          /\ Len(q.got) < Size /\ Len(q.got) + Len(r.up) <= Size
    /\ \A i \in Client : ~(client[i].fd = f /\ client[i].state = "IDLE")
    /\ \A t \in Caller : ThreadAt(t, "work") /\ client[thread[t].client].fd = f =>
          Exchanging(client[thread[t].client], thread[t].call, r, q, call'[thread[t].call].executed)
    /\ call' \in Seq(CallRecord) /\ DOMAIN call' = DOMAIN call
    /\ \A k \in DOMAIN call : /\ call'[k].executed \in Nat /\ call'[k].executed >= call[k].executed
                              /\ call'[k].answer = call[k].answer /\ call'[k].result = call[k].result
                              /\ call'[k].wait = call[k].wait

LEMMA ServerSide ==
    ASSUME XInv, NEW f \in Conn, NEW r, NEW q, ServerMoves(f, r, q)
    PROVE  RpcTypes' /\ CallersOK' /\ Answers' /\ ClientsOK' /\ Requests' /\ Exchange'
<1> USE Numbers DEF ServerMoves
<1>0. /\ wire'[f] = r /\ peer'[f] = q /\ \A g \in Conn : g # f => wire'[g] = wire[g] /\ peer'[g] = peer[g]
      /\ wire' \in [Conn -> WireRecord] /\ peer' \in [Conn -> PeerRecord]
  BY DEF XInv, RpcTypes
<1>1. RpcTypes'
  BY <1>0 DEF XInv, RpcTypes
<1>2. CallersOK'
  <2>1. \A t \in Caller : Active(t) => thread[t].call \in DOMAIN call
    BY DEF XInv, CallersOK
  <2> QED BY <2>1 DEF XInv, CallersOK, Active, Known, InUse, InProgress, ThreadAt
<1>3. Answers'
  <2>1. ASSUME NEW k \in DOMAIN call, call[k].executed >= 1 PROVE call'[k].executed >= 1
    <3>1. call[k].executed \in Nat
      BY CallsAre DEF XInv, CallRecord
    <3> QED BY <2>1, <3>1
  <2> QED BY <2>1 DEF XInv, Answers
<1>4. ClientsOK'
  <2>1. \A i \in Client : client[i].fd \in Conn \cup {None}
    BY DEF XInv, RpcTypes, ClientRecord
  <2>2. ASSUME NEW i \in Client, NEW c, c = client[i]
        PROVE  /\ c.fd = None <=> c.state = "NO_CONNECTION"
               /\ c.fd # None => wire'[c.fd].client /\ wire'[c.fd].server # "none"
               /\ c.watched => c.state \in {"WRITE_REQUEST", "READ"}
               /\ c.state = "IDLE" =>
                     /\ wire'[c.fd].server \in {"open", "closed"} /\ wire'[c.fd].down = <<>>
                     /\ wire'[c.fd].server \in {"queued", "open"} => wire'[c.fd].up = <<>> /\ peer'[c.fd] = NewPeer
    <3>1. /\ c.fd = None <=> c.state = "NO_CONNECTION"
          /\ c.fd # None => wire[c.fd].client /\ wire[c.fd].server # "none"
          /\ c.watched => c.state \in {"WRITE_REQUEST", "READ"}
          /\ c.state = "IDLE" =>
                /\ wire[c.fd].server \in {"open", "closed"} /\ wire[c.fd].down = <<>>
                /\ wire[c.fd].server \in {"queued", "open"} => wire[c.fd].up = <<>> /\ peer[c.fd] = NewPeer
      BY <2>2 DEF XInv, ClientsOK, Live
    <3>2. CASE c.fd = f /\ c.state = "IDLE"
      BY <1>0, <2>2, <3>1, <3>2
    <3>3. CASE c.fd \in Conn \ {f} \/ c.fd = None \/ c.state # "IDLE"
      BY <1>0, <2>1, <2>2, <3>1, <3>3
    <3> QED BY <2>1, <2>2, <3>2, <3>3
  <2>3. \A i, j \in Client : i # j /\ client[i].fd = client[j].fd => client[i].fd = None
    BY DEF XInv, ClientsOK
  <2> QED BY <2>2, <2>3 DEF ClientsOK, Live
<1>5. Requests'
  BY <1>0 DEF XInv, Requests, Live
<1>6. Exchange'
  BY <1>0, OtherExchanges
<1> QED BY <1>1, <1>2, <1>3, <1>4, <1>5, <1>6

\* The work of a thread is on one of the connections.
LEMMA WorksOn ==
    ASSUME RpcTypes, CallersOK, ClientsOK, NEW t \in Caller, ThreadAt(t, "work")
    PROVE  LET c == client[thread[t].client] IN
           /\ thread[t].client \in Client /\ thread[t].call \in DOMAIN call /\ c \in ClientRecord
           /\ c.fd = None \/ (c.fd \in Conn /\ wire[c.fd].client)
           /\ c.watched \/ c.state \in {"WRITE_REQUEST", "READ", "IDLE"} => c.fd \in Conn
<1> USE Numbers
<1>1. Active(t)
  BY DEF Active, ThreadAt
<1>2. thread[t].client \in Client /\ thread[t].call \in DOMAIN call
  BY <1>1, WorksWith
<1>3. ASSUME NEW c, c = client[thread[t].client]
      PROVE  /\ c \in ClientRecord /\ (c.fd = None \/ (c.fd \in Conn /\ wire[c.fd].client))
             /\ c.watched \/ c.state \in {"WRITE_REQUEST", "READ", "IDLE"} => c.fd \in Conn
  <2>1. c \in ClientRecord /\ c.fd \in Conn \cup {None}
    BY <1>2, <1>3 DEF RpcTypes, ClientRecord
  <2>2. /\ c.fd = None <=> c.state = "NO_CONNECTION"
        /\ c.fd # None => wire[c.fd].client
        /\ c.watched => c.state \in {"WRITE_REQUEST", "READ"}
    BY <1>2, <1>3 DEF ClientsOK
  <2>3. c.state \in {"WRITE_REQUEST", "READ", "IDLE"} => c.fd \in Conn
    BY <2>1, <2>2
  <2>4. c.fd = None \/ (c.fd \in Conn /\ wire[c.fd].client)
    BY <2>1, <2>2
  <2>5. c.watched \/ c.state \in {"WRITE_REQUEST", "READ", "IDLE"} => c.fd \in Conn
    BY <2>2, <2>3
  <2> QED BY <2>1, <2>4, <2>5
<1> QED BY <1>2, <1>3

LEMMA StillBrokenOff ==
    ASSUME RpcTypes, CallersOK, ClientsOK, UNCHANGED <<thread, client>>,
           \A k \in DOMAIN call : call'[k].answer = call[k].answer,
           \A f \in Conn : wire[f].client /\ wire'[f].server = "closed" => wire[f].server = "closed",
           NEW t \in Caller, BrokenOff(t)'
    PROVE  BrokenOff(t) /\ thread'[t].call = thread[t].call /\ thread[t].call \in DOMAIN call
<1>1. Active(t) /\ thread[t].call \in DOMAIN call
  <2>1. Active(t)
    BY DEF BrokenOff, Active, ThreadAt
  <2> QED BY <2>1, WorksWith
<1>2. CASE ~ThreadAt(t, "work")
  BY <1>1, <1>2 DEF BrokenOff, ThreadAt
<1>3. CASE ThreadAt(t, "work")
  <2>1. client[thread[t].client].watched => client[thread[t].client].fd \in Conn /\ wire[client[thread[t].client].fd].client
    BY <1>3, WorksOn, Numbers
  <2> QED BY <1>1, <1>3, <2>1 DEF BrokenOff, ThreadAt
<1> QED BY <1>2, <1>3, <1>1

LEMMA AcceptConnectionInv ==
    ASSUME XInv, NEW f \in Conn, AcceptConnection(f)
    PROVE  XInv'
<1> USE DEF XInv
<1>0. /\ wire[f].server = "queued" /\ peer' = [peer EXCEPT ![f] = NewPeer] /\ wire' = [wire EXCEPT ![f].server = "open"]
      /\ UNCHANGED <<thread, call, clients_, client, call_mutex, rpc_shutting_down_>>
  BY DEF AcceptConnection
<1>1. PICK q : q = NewPeer
  OBVIOUS
<1>2. wire[f] \in WireRecord /\ peer[f] = q /\ q \in PeerRecord /\ q.left = <<>> /\ q.got = <<>>
  BY <1>0, <1>1 DEF RpcTypes, Requests, NewPeer, PeerRecord
<1>3. PICK r : r = [wire[f] EXCEPT !.server = "open"]
  OBVIOUS
<1>4. /\ r \in WireRecord /\ r.server = "open" /\ r.up = wire[f].up /\ r.down = wire[f].down
      /\ r.client = wire[f].client /\ r.reset = wire[f].reset
  BY <1>2, <1>3 DEF WireRecord
<1>5. /\ wire' = [wire EXCEPT ![f] = r] /\ wire'[f] = r /\ \A g \in Conn : g # f => wire'[g] = wire[g]
      /\ peer' = [peer EXCEPT ![f] = q] /\ peer' = peer
  BY <1>0, <1>1, <1>2, <1>3 DEF RpcTypes
<1>6. RpcTypes' /\ CallersOK' /\ Answers' /\ ClientsOK' /\ Requests' /\ Exchange'
  <2>1. Len(r.up) <= Room /\ Len(r.down) <= Room /\ ~r.reset
    BY <1>0, <1>4 DEF RpcTypes, Requests
  <2>2. \E k \in DOMAIN call : /\ Piece(q.got, k, 0) /\ Piece(r.up, k, Len(q.got))
                               /\ Len(q.got) < Size /\ Len(q.got) + Len(r.up) <= Size
    BY <1>0, <1>2, <1>4 DEF Requests, Live
  <2>3. \A i \in Client : ~(client[i].fd = f /\ client[i].state = "IDLE")
    BY <1>0 DEF ClientsOK
  <2>4. ASSUME NEW t \in Caller, ThreadAt(t, "work"), client[thread[t].client].fd = f
        PROVE  Exchanging(client[thread[t].client], thread[t].call, r, q, call'[thread[t].call].executed)
    <3>1. Exchanging(client[thread[t].client], thread[t].call, wire[f], peer[f], call[thread[t].call].executed)
      BY <2>4 DEF Exchange
    <3> QED BY <1>0, <1>2, <1>4, <3>1 DEF Exchanging, Sending, Awaiting, Requested, Answering
  <2>5. /\ call' \in Seq(CallRecord) /\ DOMAIN call' = DOMAIN call
        /\ \A k \in DOMAIN call : /\ call'[k].executed \in Nat /\ call'[k].executed >= call[k].executed
                                  /\ call'[k].answer = call[k].answer /\ call'[k].result = call[k].result
                                  /\ call'[k].wait = call[k].wait
    BY <1>0, CallsAre DEF RpcTypes, CallRecord
  <2>6. ServerMoves(f, r, q)
    BY <1>0, <1>2, <1>4, <1>5, <2>1, <2>2, <2>3, <2>4, <2>5 DEF ServerMoves
  <2> HIDE DEF XInv
  <2> QED BY <2>6, ServerSide
<1>7. Executions'
  <2>1. \A k \in DOMAIN call : Carrying(k)' \subseteq Carrying(k)
    BY <1>0, <1>4, <1>5 DEF Carrying, Carries, Sends, Live, ThreadAt
  <2>2. \A g \in Conn : wire'[g].server = "closed" => wire[g].server = "closed"
    BY <1>4, <1>5
  <2>3. \A t \in Caller : BrokenOff(t)' => BrokenOff(t) /\ thread'[t].call = thread[t].call /\ thread[t].call \in DOMAIN call
    BY <1>0, <2>2, StillBrokenOff
  <2> QED BY <1>0, <2>1, <2>3, Executed_, CallsAre DEF CallRecord
<1> QED BY <1>6, <1>7

-----------------------------------------------------------------------------
(* The server's connections, event by event.                                    *)

Got(f) == peer[f].got
Up(f) == wire[f].up
DownTo(f) == wire[f].down

\* What a connection of the server has to do with the calls.
LEMMA Receives ==
    ASSUME XInv, NEW f \in Conn, wire[f].server = "open",
           NEW g, g = Got(f), NEW u, u = Up(f), NEW d, d = DownTo(f)
    PROVE  /\ wire[f] \in WireRecord /\ peer[f] \in PeerRecord /\ g \in Seq(Unit) /\ u \in Seq(Unit) /\ d \in Seq(Unit)
           /\ Len(g) \in Nat /\ Len(u) \in Nat /\ Len(d) \in Nat /\ Len(d) <= Room
           /\ Len(g) < Size /\ Len(g) + Len(u) <= Size
           /\ g \o u \in Seq(Unit) /\ Len(g \o u) = Len(g) + Len(u)
           /\ \E k \in DOMAIN call : k \in Nat /\ Piece(g, k, 0) /\ Piece(u, k, Len(g)) /\ Piece(g \o u, k, 0)
<1>1. /\ wire[f] \in WireRecord /\ peer[f] \in PeerRecord
      /\ Len(d) <= Room /\ u \in Seq(Unit) /\ d \in Seq(Unit) /\ g \in Seq(Unit)
  BY DEF XInv, RpcTypes, WireRecord, PeerRecord, Got, Up, DownTo
<1>2. Len(u) \in Nat /\ Len(d) \in Nat /\ Len(g) \in Nat
  BY <1>1, LenProperties
<1>3. PICK k \in DOMAIN call :
              /\ Piece(g, k, 0) /\ Piece(u, k, Len(g)) /\ Len(g) < Size /\ Len(g) + Len(u) <= Size
  BY DEF XInv, Requests, Live, Got, Up
<1>4. k \in Nat
  BY <1>3, CallsAre DEF XInv
<1>5. g \o u \in Seq(Unit) /\ Len(g \o u) = Len(g) + Len(u) /\ Piece(g \o u, k, 0)
  <2>1. Piece(u, k, 0 + Len(g))
    BY <1>2, <1>3
  <2> QED BY <1>1, <1>3, <1>4, <2>1, PieceJoin
<1> QED BY <1>1, <1>2, <1>3, <1>4, <1>5

\* The request is there, or not yet.
Whole(f) == peer[f].left = <<>> /\ Len(peer[f].got \o wire[f].up) >= Size
Partial(f) == peer[f].left = <<>> /\ ~(Len(peer[f].got \o wire[f].up) >= Size)

\* A request that is there: whose it is.
LEMMA RequestOf ==
    ASSUME XInv, NEW f \in Conn, wire[f].server = "open", Whole(f), NEW g, g = Got(f), NEW u, u = Up(f)
    PROVE  \E k \in DOMAIN call :
              /\ (g \o u)[Size][1] = k /\ f \in Carrying(k) /\ Len(g) \in Nat
              /\ Len(g) + Len(u) = Size /\ u # <<>> /\ u[1] = <<k, Len(g) + 1>>
<1>1. PICK b, d : b = g \o u /\ d = DownTo(f)
  OBVIOUS
<1>2. /\ Len(g) \in Nat /\ Len(u) \in Nat /\ Len(g) < Size /\ Len(g) + Len(u) <= Size /\ u \in Seq(Unit)
      /\ Len(b) = Len(g) + Len(u)
      /\ \E k \in DOMAIN call : k \in Nat /\ Piece(g, k, 0) /\ Piece(u, k, Len(g)) /\ Piece(b, k, 0)
  BY <1>1, Receives
<1>3. Len(b) >= Size
  BY <1>1 DEF Whole, Got, Up
<1>4. Len(g) + Len(u) = Size /\ Len(u) >= 1 /\ Len(b) = 3 /\ Size = 3
  BY <1>2, <1>3, Numbers
<1>5. PICK k \in DOMAIN call : k \in Nat /\ Piece(g, k, 0) /\ Piece(u, k, Len(g)) /\ Piece(b, k, 0)
  BY <1>2
<1>6. b[3] = <<k, 0 + 3>> /\ u[1] = <<k, Len(g) + 1>>
  <2>1. 3 \in 1 .. Len(b) /\ 1 \in 1 .. Len(u)
    BY <1>2, <1>4
  <2> QED BY <1>5, <2>1 DEF Piece
<1>7. u # <<>>
  BY <1>2, <1>4, EmptySeq
<1>8. f \in Carrying(k)
  BY <1>6, <1>7 DEF Carries, Carrying, Live, Got, Up
<1>9. b[Size][1] = k
  BY <1>4, <1>6
<1> QED BY <1>1, <1>2, <1>4, <1>5, <1>6, <1>7, <1>8, <1>9

\* A connection that the client has closed is closed at the other end.
LEMMA HungUp ==
    ASSUME XInv, NEW f \in Conn, wire[f].server = "open", wire[f].client = FALSE, NEW r \in WireRecord,
           r.server = "closed", r.client = FALSE, Len(r.up) <= Room, Len(r.down) <= Room,
           wire' = [wire EXCEPT ![f] = r], peer' = [peer EXCEPT ![f] = NewPeer],
           UNCHANGED <<thread, clients_, client, call_mutex, rpc_shutting_down_>>,
           call' \in Seq(CallRecord), DOMAIN call' = DOMAIN call,
           \A k \in DOMAIN call : /\ call'[k].executed \in Nat /\ call'[k].executed >= call[k].executed
                                  /\ call'[k].answer = call[k].answer /\ call'[k].result = call[k].result
                                  /\ call'[k].wait = call[k].wait
    PROVE  /\ RpcTypes' /\ CallersOK' /\ Answers' /\ ClientsOK' /\ Requests' /\ Exchange'
           /\ \A k : Carrying(k)' \subseteq Carrying(k) \ {f}
           /\ \A t \in Caller : BrokenOff(t)' =>
                 thread'[t].call = thread[t].call /\ thread[t].call \in DOMAIN call /\ BrokenOff(t)
<1>1. PICK q : q = NewPeer
  OBVIOUS
<1>2. q \in PeerRecord /\ q.left = <<>> /\ q.got = <<>>
  BY <1>1 DEF NewPeer, PeerRecord
<1>3. /\ wire'[f] = r /\ peer'[f] = q /\ \A g \in Conn : g # f => wire'[g] = wire[g] /\ peer'[g] = peer[g]
  BY <1>1 DEF XInv, RpcTypes
<1>4. \A i \in Client : client[i].fd # f
  BY Numbers DEF XInv, ClientsOK
<1>5. \A t \in Caller : ~(ThreadAt(t, "work") /\ client[thread[t].client].fd = f)
  <2>1. \A t \in Caller : ThreadAt(t, "work") => thread[t].client \in Client
    BY WorksWith DEF XInv, Active, ThreadAt
  <2> QED BY <1>4, <2>1
<1>6. ServerMoves(f, r, q)
  <2>1. /\ wire' = [wire EXCEPT ![f] = r] /\ peer' = [peer EXCEPT ![f] = q]
        /\ r.client = wire[f].client /\ r.server # "none"
    BY <1>1 DEF XInv, RpcTypes, WireRecord
  <2>2. \A t \in Caller : ThreadAt(t, "work") /\ client[thread[t].client].fd = f =>
          Exchanging(client[thread[t].client], thread[t].call, r, q, call'[thread[t].call].executed)
    BY <1>5
  <2> QED BY <1>1, <1>2, <1>4, <2>1, <2>2 DEF ServerMoves
<1>7. RpcTypes' /\ CallersOK' /\ Answers' /\ ClientsOK' /\ Requests' /\ Exchange'
  BY <1>6, ServerSide
<1>8. \A k : Carrying(k)' \subseteq Carrying(k) \ {f}
  BY <1>3 DEF Carrying, Carries, Sends, Live, ThreadAt
<1>9. \A g \in Conn : wire[g].client /\ wire'[g].server = "closed" => wire[g].server = "closed"
  BY <1>3
<1>10. \A t \in Caller : BrokenOff(t)' =>
          thread'[t].call = thread[t].call /\ thread[t].call \in DOMAIN call /\ BrokenOff(t)
  BY <1>9, StillBrokenOff DEF XInv
<1> QED BY <1>7, <1>8, <1>10

\* What is written of a response.
LEMMA Writes ==
    ASSUME NEW d \in Seq(Unit), Len(d) <= Room, NEW s \in Seq(Unit), NEW k \in Nat, NEW n \in Nat, Piece(s, k, n),
           NEW m, m = Smaller(Room - Len(d), Len(s))
    PROVE  /\ m \in 0 .. Len(s)
           /\ d \o SubSeq(s, 1, m) \in Seq(Unit) /\ Len(d \o SubSeq(s, 1, m)) = Len(d) + m /\ Len(d) + m <= Room
           /\ SubSeq(s, m + 1, Len(s)) \in Seq(Unit) /\ Len(SubSeq(s, m + 1, Len(s))) = Len(s) - m
           /\ Piece(SubSeq(s, m + 1, Len(s)), k, n + m)
           /\ \A a \in Nat : n = a + Len(d) /\ Piece(d, k, a) => Piece(d \o SubSeq(s, 1, m), k, a)
<1>1. Len(d) \in Nat /\ Len(s) \in Nat /\ m \in 0 .. Len(s) /\ Len(d) + m <= Room
  BY LenProperties, Numbers DEF Smaller
<1>2. /\ SubSeq(s, 1, m) \in Seq(Unit) /\ SubSeq(s, m + 1, Len(s)) \in Seq(Unit)
      /\ Len(SubSeq(s, 1, m)) = m /\ Len(SubSeq(s, m + 1, Len(s))) = Len(s) - m
      /\ Piece(SubSeq(s, 1, m), k, n) /\ Piece(SubSeq(s, m + 1, Len(s)), k, n + m)
  BY <1>1, PieceCut
<1>3. d \o SubSeq(s, 1, m) \in Seq(Unit) /\ Len(d \o SubSeq(s, 1, m)) = Len(d) + m
  BY <1>2, ConcatProperties
<1>4. ASSUME NEW a \in Nat, n = a + Len(d), Piece(d, k, a) PROVE Piece(d \o SubSeq(s, 1, m), k, a)
  BY <1>2, <1>4, PieceJoin
<1> QED BY <1>1, <1>2, <1>3, <1>4

\* readRequest() and executeRequest(), for the whole of a request, and writeResponse() then.
LEMMA RequestExecuted ==
    ASSUME XInv, NEW f \in Conn, wire[f].server = "open",
           ReadRequest(f), Whole(f),
           UNCHANGED <<thread, clients_, client, call_mutex, rpc_shutting_down_>>
    PROVE  XInv'
<1>2. PICK s, p, g, u : /\ s = wire[f] /\ p = peer[f] /\ s \in WireRecord /\ p \in PeerRecord
                        /\ g = p.got /\ u = s.up
  BY DEF XInv, RpcTypes
<1>1. PICK k \in DOMAIN call :
        /\ (g \o u)[Size][1] = k /\ f \in Carrying(k) /\ Len(g) \in Nat
        /\ Len(g) + Len(u) = Size /\ u # <<>> /\ u[1] = <<k, Len(g) + 1>>
  <2>1. g = Got(f) /\ u = Up(f)
    BY <1>2 DEF Got, Up
  <2> QED BY <2>1, RequestOf
<1>3. PICK taken : taken = [wire EXCEPT ![f].up = <<>>]
  OBVIOUS
<1>4. call' = [call EXCEPT ![k].executed = @ + 1] /\ WriteResponse(f, taken, Message(k))
  BY <1>1, <1>2, <1>3 DEF ReadRequest, Whole
<1>5. /\ call' \in Seq(CallRecord) /\ DOMAIN call' = DOMAIN call
      /\ \A n \in DOMAIN call : /\ call'[n].executed = call[n].executed + (IF n = k THEN 1 ELSE 0)
                                /\ call[n].executed \in Nat /\ call'[n].executed \in Nat
                                /\ call'[n].executed >= call[n].executed
                                /\ call'[n].answer = call[n].answer /\ call'[n].result = call[n].result
                                /\ call'[n].wait = call[n].wait /\ call'[n].disturbed = call[n].disturbed
  BY <1>4, CallExecuted DEF XInv
<1>a. k \in Nat
  BY CallsAre DEF XInv
<1>6. PICK t0 : t0 = taken[f] /\ t0 = [s EXCEPT !.up = <<>>]
  BY <1>2, <1>3 DEF XInv, RpcTypes
<1>7. /\ t0 \in WireRecord /\ t0.up = <<>> /\ t0.down = s.down /\ t0.client = s.client /\ t0.server = "open"
      /\ t0.reset = s.reset
  <2>1. <<>> \in Seq(Unit) /\ s.server = "open"
    BY <1>2, EmptySeq
  <2> QED BY <1>2, <1>6, <2>1 DEF WireRecord
<1>8. CASE s.client = FALSE
  <2>1. PICK q : q = [t0 EXCEPT !.server = "closed"]
    OBVIOUS
  <2>2. /\ q \in WireRecord /\ q.server = "closed" /\ q.client = FALSE /\ q.up = <<>> /\ q.down = s.down
    BY <1>7, <1>8, <2>1 DEF WireRecord
  <2>3. wire' = [wire EXCEPT ![f] = q] /\ peer' = [peer EXCEPT ![f] = NewPeer]
    BY <1>3, <1>4, <1>6, <1>7, <1>8, <2>1 DEF WriteResponse, XInv, RpcTypes
  <2>4. Len(q.up) <= Room /\ Len(q.down) <= Room
    BY <1>2, <2>2, Numbers, EmptySeq DEF XInv, RpcTypes
  <2>5. /\ RpcTypes' /\ CallersOK' /\ Answers' /\ ClientsOK' /\ Requests' /\ Exchange'
        /\ \A n : Carrying(n)' \subseteq Carrying(n) \ {f}
        /\ \A t \in Caller : BrokenOff(t)' =>
              thread'[t].call = thread[t].call /\ thread[t].call \in DOMAIN call /\ BrokenOff(t)
    BY <1>2, <1>5, <1>8, <2>2, <2>3, <2>4, HungUp
  <2>6. Executions'
    BY <1>1, <1>5, <2>5, ExecutedOnce DEF XInv
  <2> QED BY <2>5, <2>6 DEF XInv
<1>9. CASE s.client = TRUE
  <2>1. PICK e, M, m : e = s.down /\ M = Message(k) /\ m = Smaller(Room - Len(e), Len(M))
    OBVIOUS
  <2>2. M \in Seq(Unit) /\ Len(M) = Size /\ Piece(M, k, 0) /\ e \in Seq(Unit) /\ Len(e) <= Room
    BY <1>2, <1>a, <2>1, MessageIs DEF XInv, RpcTypes, WireRecord
  <2>3. PICK d, l : d = e \o SubSeq(M, 1, m) /\ l = SubSeq(M, m + 1, Len(M))
    OBVIOUS
  <2>4. /\ m \in 0 .. Size /\ d \in Seq(Unit) /\ Len(d) = Len(e) + m /\ Len(d) <= Room
        /\ l \in Seq(Unit) /\ Len(l) = Size - m /\ Piece(l, k, 0 + m)
        /\ e = <<>> => Piece(d, k, 0) /\ Len(d) = m
    <3>1. e = <<>> => Len(e) = 0 /\ Piece(e, k, 0)
      BY EmptySeq DEF Piece
    <3>2. Len(e) \in Nat
      BY <2>2, LenProperties
    <3>3. PICK z \in Nat : z = 0
      OBVIOUS
    <3>4. m = Smaller(Room - Len(e), Len(M)) /\ Piece(M, k, z)
      BY <2>1, <2>2, <3>3
    <3>5. /\ m \in 0 .. Len(M)
          /\ d \in Seq(Unit) /\ Len(d) = Len(e) + m /\ Len(e) + m <= Room
          /\ l \in Seq(Unit) /\ Len(l) = Len(M) - m /\ Piece(l, k, z + m)
          /\ \A a \in Nat : z = a + Len(e) /\ Piece(e, k, a) => Piece(d, k, a)
      <4>1. /\ m \in 0 .. Len(M)
            /\ e \o SubSeq(M, 1, m) \in Seq(Unit) /\ Len(e \o SubSeq(M, 1, m)) = Len(e) + m /\ Len(e) + m <= Room
            /\ SubSeq(M, m + 1, Len(M)) \in Seq(Unit) /\ Len(SubSeq(M, m + 1, Len(M))) = Len(M) - m
            /\ Piece(SubSeq(M, m + 1, Len(M)), k, z + m)
            /\ \A a \in Nat : z = a + Len(e) /\ Piece(e, k, a) => Piece(e \o SubSeq(M, 1, m), k, a)
        BY <1>a, <2>2, <3>3, <3>4, Writes
      <4> QED BY <2>3, <4>1
    <3>6. m \in 0 .. Size /\ Len(l) = Size - m /\ Len(d) <= Room
      BY <2>2, <3>5
    <3>7. e = <<>> => Piece(d, k, 0) /\ Len(d) = m
      BY <3>1, <3>2, <3>3, <3>5
    <3> QED BY <3>3, <3>5, <3>6, <3>7
  <2>5. PICK r1, q : r1 = [t0 EXCEPT !.down = d] /\ q = [got |-> <<>>, left |-> l]
    OBVIOUS
  <2>6. /\ r1 \in WireRecord /\ r1.up = <<>> /\ r1.down = d /\ r1.client /\ r1.server = "open" /\ r1.reset = s.reset
        /\ q \in PeerRecord /\ q.got = <<>> /\ q.left = l
    BY <1>7, <1>9, <2>4, <2>5, EmptySeq DEF WireRecord, PeerRecord
  <2>7. /\ wire' = [wire EXCEPT ![f] = r1] /\ peer' = [peer EXCEPT ![f] = q]
        /\ wire'[f] = r1 /\ peer'[f] = q /\ \A h \in Conn : h # f => wire'[h] = wire[h] /\ peer'[h] = peer[h]
    <3>1. wire' = [taken EXCEPT ![f].down = d] /\ peer' = [peer EXCEPT ![f] = q]
      BY <1>4, <1>6, <1>7, <1>9, <2>1, <2>3, <2>5 DEF WriteResponse
    <3>2. wire' = [wire EXCEPT ![f] = r1]
      <4>1. wire \in [Conn -> WireRecord] /\ taken = [wire EXCEPT ![f] = t0]
        BY <1>2, <1>3, <1>6 DEF XInv, RpcTypes
      <4> QED BY <1>6, <2>5, <3>1, <4>1
    <3> QED BY <3>1, <3>2 DEF XInv, RpcTypes
  <2>8. \A t \in Caller : ThreadAt(t, "work") /\ client[thread[t].client].fd = f =>
          /\ ~Sends(t, thread[t].call, f)
          /\ Exchanging(client[thread[t].client], thread[t].call, r1, q, call'[thread[t].call].executed)
    <3> SUFFICES ASSUME NEW t \in Caller, ThreadAt(t, "work"), NEW c, c = client[thread[t].client], c.fd = f,
                        NEW n, n = thread[t].call
                 PROVE  ~Sends(t, n, f) /\ Exchanging(c, n, r1, q, call'[n].executed)
      OBVIOUS
    <3>1. n \in DOMAIN call /\ c \in ClientRecord /\ n \in Nat
      BY WorksOn, CallsAre DEF XInv
    <3>2. Exchanging(c, n, s, p, call[n].executed)
      BY <1>2 DEF XInv, Exchange
    <3>3. ~(c.watched /\ c.state = "WRITE_REQUEST")
      <4> SUFFICES ASSUME Sending(c, n, s, p) PROVE FALSE
        BY <3>2 DEF Exchanging
      <4>1. PICK rest : rest = c.left
        OBVIOUS
      <4>2. Len(g) + Len(u) + Len(rest) = Size /\ rest # <<>> /\ rest \in Seq(Unit)
        BY <1>2, <3>1, <4>1 DEF Sending, ClientRecord
      <4>3. Len(rest) \in Nat /\ Len(rest) # 0
        BY <4>2, EmptySeq, LenProperties
      <4>4. Size + Len(rest) = Size
        BY <1>1, <4>2
      <4> QED BY <4>3, <4>4, Numbers
    <3>4. ASSUME c.watched, c.state = "READ" PROVE Awaiting(c, n, r1, q, call'[n].executed)
      <4>1. Awaiting(c, n, s, p, call[n].executed) /\ (Requested(c, n, s, p) \/ Answering(c, n, s, p, call[n].executed))
        BY <1>2, <3>2, <3>4 DEF Exchanging, Awaiting
      <4>2. Requested(c, n, s, p) /\ n = k
        <5>1. Requested(c, n, s, p)
          BY <1>1, <1>2, <4>1 DEF Answering
        <5>2. u[1] = <<n, Len(g) + 1>>
          <6>1. u \in Seq(Unit) /\ u # <<>> /\ Piece(u, n, Len(g))
            BY <1>1, <1>2, <5>1 DEF Requested, WireRecord
          <6>2. 1 \in 1 .. Len(u)
            BY <6>1, EmptySeq, LenProperties
          <6> QED BY <6>1, <6>2 DEF Piece
        <5> QED BY <1>1, <1>2, <5>1, <5>2
      <4>3. PICK cg : cg = c.got
        OBVIOUS
      <4>a. cg = <<>> /\ e = <<>> /\ Len(cg) = 0
        BY <2>1, <4>2, <4>3, EmptySeq DEF Requested
      <4>b. Piece(d, k, 0) /\ Len(d) = m
        BY <2>4, <4>a
      <4>4. Piece(cg, k, 0) /\ Piece(d, k, Len(cg)) /\ Len(cg) + Len(d) <= Size
        <5>1. Piece(cg, k, 0)
          BY <4>a DEF Piece
        <5> QED BY <2>4, <4>a, <4>b, <5>1, Numbers
      <4>5. call'[k].executed >= 1
        BY <1>5
      <4>6. Piece(l, k, Len(cg) + Len(d)) /\ Len(cg) + Len(d) + Len(l) = Size
        BY <2>4, <4>a, <4>b, Numbers
      <4> QED BY <2>6, <4>2, <4>3, <4>4, <4>5, <4>6 DEF Awaiting, Answering
    <3>5. c.state # "IDLE"
      <4> SUFFICES ASSUME c.state = "IDLE" PROVE FALSE
        OBVIOUS
      <4>1. thread[t].client \in Client
        BY WorksOn DEF XInv
      <4> QED BY <1>1, <1>2, <4>1 DEF XInv, ClientsOK, Live
    <3> QED BY <3>3, <3>4, <3>5 DEF Exchanging, Sends
  <2>9. ServerMoves(f, r1, q)
    <3>1. \A i \in Client : ~(client[i].fd = f /\ client[i].state = "IDLE")
      BY <1>1, <1>2 DEF XInv, ClientsOK, Live
    <3>2. \E n \in DOMAIN call : /\ Piece(q.got, n, 0) /\ Piece(r1.up, n, Len(q.got))
                                 /\ Len(q.got) < Size /\ Len(q.got) + Len(r1.up) <= Size
      <4>1. Len(q.got) = 0 /\ Len(r1.up) = 0
        BY <2>6, EmptySeq
      <4> QED BY <4>1, Numbers DEF Piece
    <3>3. r1.client = wire[f].client /\ ~r1.reset /\ Len(r1.up) <= Room /\ Len(r1.down) <= Room
      <4>1. ~s.reset
        BY <1>2 DEF XInv, Requests, WireRecord
      <4>2. s.client = TRUE /\ r1.client = TRUE
        BY <1>2, <1>9, <2>6 DEF WireRecord
      <4>3. Len(r1.up) <= Room
        BY <2>6, Numbers, EmptySeq
      <4> QED BY <1>2, <2>4, <2>6, <4>1, <4>2, <4>3
    <3>4. \A t \in Caller : ThreadAt(t, "work") /\ client[thread[t].client].fd = f =>
            Exchanging(client[thread[t].client], thread[t].call, r1, q, call'[thread[t].call].executed)
      BY <2>8
    <3> QED BY <1>5, <2>6, <2>7, <3>1, <3>2, <3>3, <3>4 DEF ServerMoves
  <2>10. RpcTypes' /\ CallersOK' /\ Answers' /\ ClientsOK' /\ Requests' /\ Exchange'
    BY <2>9, ServerSide
  <2>11. Executions'
    <3>1. \A n : Carrying(n)' \subseteq Carrying(n)
      BY <1>2, <1>9, <2>6, <2>7 DEF Carrying, Carries, Sends, Live, ThreadAt
    <3>2. f \notin Carrying(k)'
      <4>1. ~Carries(k, f)'
        BY <2>6, <2>7 DEF Carries
      <4>2. \A t \in Caller : ~Sends(t, k, f)'
        BY <2>8 DEF Sends, ThreadAt
      <4> QED BY <4>1, <4>2 DEF Carrying
    <3>3. \A h \in Conn : wire'[h].server = "closed" => wire[h].server = "closed"
      BY <2>6, <2>7
    <3>4. \A t \in Caller : BrokenOff(t)' =>
              thread'[t].call = thread[t].call /\ thread[t].call \in DOMAIN call /\ BrokenOff(t)
      BY <1>5, <3>3, StillBrokenOff DEF XInv
    <3> QED BY <1>1, <1>5, <3>1, <3>2, <3>4, ExecutedOnce DEF XInv
  <2> QED BY <2>10, <2>11 DEF XInv
<1>10. s.client \in BOOLEAN
  BY <1>2 DEF WireRecord
<1> QED BY <1>8, <1>9, <1>10

\* Less than a request is read, and more is waited for.
LEMMA RequestGrows ==
    ASSUME XInv, NEW f \in Conn, wire[f].server = "open", wire[f].client = TRUE,
           ReadRequest(f), Partial(f),
           UNCHANGED <<thread, clients_, client, call_mutex, rpc_shutting_down_>>
    PROVE  XInv'
<1>1. PICK s, p, g, u, b : /\ s = wire[f] /\ p = peer[f] /\ s \in WireRecord /\ p \in PeerRecord
                           /\ g = p.got /\ u = s.up /\ b = g \o u
  BY DEF XInv, RpcTypes
<1>a. PICK d : d = DownTo(f)
  OBVIOUS
<1>2. /\ Len(g) \in Nat /\ Len(u) \in Nat /\ Len(d) <= Room /\ Len(g) + Len(u) <= Size
      /\ g \in Seq(Unit) /\ u \in Seq(Unit) /\ b \in Seq(Unit) /\ Len(b) = Len(g) + Len(u)
      /\ \E k \in DOMAIN call : k \in Nat /\ Piece(b, k, 0)
  <2>1. g = Got(f) /\ u = Up(f)
    BY <1>1 DEF Got, Up
  <2> QED BY <1>1, <1>a, <2>1, Receives
<1>b. Len(b) < Size
  <2>1. ~(Len(b) >= Size)
    BY <1>1 DEF Partial
  <2> QED BY <1>2, <2>1, Numbers
<1>3. /\ u # <<>> /\ wire' = [wire EXCEPT ![f].up = <<>>] /\ peer' = [peer EXCEPT ![f].got = b]
      /\ p.left = <<>> /\ s.client = TRUE /\ s.server = "open" /\ UNCHANGED call
  BY <1>1 DEF ReadRequest, Partial
<1>4. PICK r, q : r = [s EXCEPT !.up = <<>>] /\ q = [p EXCEPT !.got = b]
  OBVIOUS
<1>5. /\ r \in WireRecord /\ r.up = <<>> /\ r.down = s.down /\ r.client = TRUE /\ r.server = "open" /\ r.reset = s.reset
      /\ q \in PeerRecord /\ q.got = b /\ q.left = <<>>
  <2>1. <<>> \in Seq(Unit)
    BY EmptySeq
  <2> QED BY <1>1, <1>2, <1>3, <1>4, <2>1 DEF WireRecord, PeerRecord
<1>6. /\ wire' = [wire EXCEPT ![f] = r] /\ peer' = [peer EXCEPT ![f] = q]
      /\ wire'[f] = r /\ peer'[f] = q /\ \A h \in Conn : h # f => wire'[h] = wire[h] /\ peer'[h] = peer[h]
  BY <1>1, <1>3, <1>4 DEF XInv, RpcTypes
<1>7. PICK v : v = r.up /\ v = <<>> /\ Len(v) = 0
  BY <1>5, EmptySeq
<1>8. \A i \in Client : ~(client[i].fd = f /\ client[i].state = "IDLE")
  BY <1>1, <1>3 DEF XInv, ClientsOK, Live
<1>9. ASSUME NEW t \in Caller, ThreadAt(t, "work"), client[thread[t].client].fd = f
      PROVE  Exchanging(client[thread[t].client], thread[t].call, r, q, call[thread[t].call].executed)
  <2>1. PICK c, n : c = client[thread[t].client] /\ n = thread[t].call
    OBVIOUS
  <2>2. n \in DOMAIN call /\ c \in ClientRecord /\ n \in Nat /\ thread[t].client \in Client
    BY <1>9, <2>1, WorksOn, CallsAre DEF XInv
  <2>3. Exchanging(c, n, s, p, call[n].executed)
    BY <1>1, <1>9, <2>1 DEF XInv, Exchange
  <2>4. Piece(g, n, 0) /\ Piece(u, n, Len(g)) => Piece(b, n, 0) /\ Piece(v, n, Len(b))
    <3>1. PICK z \in Nat : z = 0 /\ z + Len(g) = Len(g)
      BY <1>2
    <3>2. Piece(g, n, z) /\ Piece(u, n, z + Len(g)) => Piece(b, n, z)
      BY <1>1, <1>2, <2>2, <3>1, PieceJoin
    <3>3. Piece(v, n, Len(b))
      BY <1>7 DEF Piece
    <3> QED BY <3>1, <3>2, <3>3
  <2>5. ASSUME Sending(c, n, s, p) PROVE Sending(c, n, r, q)
    <3>1. PICK rest : rest = c.left
      OBVIOUS
    <3>2. /\ s.down = <<>> /\ rest # <<>>
          /\ Piece(g, n, 0) /\ Piece(u, n, Len(g)) /\ Piece(rest, n, Len(g) + Len(u))
          /\ Len(g) + Len(u) + Len(rest) = Size
      BY <1>1, <1>3, <2>5, <3>1 DEF Sending
    <3>3. Len(b) + Len(v) = Len(g) + Len(u)
      BY <1>2, <1>7
    <3> QED BY <1>5, <1>7, <2>4, <3>1, <3>2, <3>3 DEF Sending
  <2>6. ASSUME Awaiting(c, n, s, p, call[n].executed) PROVE Awaiting(c, n, r, q, call[n].executed)
    <3>1. ~Requested(c, n, s, p)
      <4>1. Requested(c, n, s, p) => Len(g) + Len(u) = Size
        BY <1>1 DEF Requested
      <4> QED BY <1>2, <1>b, <4>1, Numbers
    <3>2. ~Answering(c, n, s, p, call[n].executed)
      BY <1>1, <1>3 DEF Answering
    <3> QED BY <1>3, <2>6, <3>1, <3>2 DEF Awaiting
  <2>7. c.state # "IDLE"
    BY <1>8, <1>9, <2>1, <2>2
  <2> QED BY <2>1, <2>3, <2>5, <2>6, <2>7 DEF Exchanging
<1>10. RpcTypes' /\ CallersOK' /\ Answers' /\ ClientsOK' /\ Requests' /\ Exchange'
  <2>1. \E n \in DOMAIN call : /\ Piece(q.got, n, 0) /\ Piece(r.up, n, Len(q.got))
                               /\ Len(q.got) < Size /\ Len(q.got) + Len(r.up) <= Size
    <3>1. PICK k \in DOMAIN call : Piece(b, k, 0)
      BY <1>2
    <3>2. Piece(v, k, Len(b)) /\ Len(b) + Len(v) <= Size
      BY <1>2, <1>7, <1>b, Numbers DEF Piece
    <3> QED BY <1>5, <1>7, <1>b, <3>1, <3>2
  <2>2. r.client = wire[f].client /\ ~r.reset /\ Len(r.up) <= Room /\ Len(r.down) <= Room
    <3>1. wire[f].client = TRUE /\ ~s.reset
      BY <1>1, <1>3 DEF XInv, Requests, WireRecord
    <3>2. Len(v) <= Room
      BY <1>7, Numbers
    <3> QED BY <1>1, <1>2, <1>5, <1>7, <1>a, <3>1, <3>2 DEF DownTo
  <2>3. /\ call' \in Seq(CallRecord) /\ DOMAIN call' = DOMAIN call
        /\ \A n \in DOMAIN call : /\ call'[n].executed \in Nat /\ call'[n].executed >= call[n].executed
                                  /\ call'[n].answer = call[n].answer /\ call'[n].result = call[n].result
                                  /\ call'[n].wait = call[n].wait
    <3>1. \A n \in DOMAIN call : call[n].executed \in Nat
      BY CallsAre DEF XInv, CallRecord
    <3>2. call \in Seq(CallRecord)
      BY DEF XInv, RpcTypes
    <3> QED BY <1>3, <3>1, <3>2
  <2>4. \A t \in Caller : ThreadAt(t, "work") /\ client[thread[t].client].fd = f =>
          Exchanging(client[thread[t].client], thread[t].call, r, q, call'[thread[t].call].executed)
    BY <1>3, <1>9
  <2>5. ServerMoves(f, r, q)
    BY <1>5, <1>6, <1>8, <2>1, <2>2, <2>3, <2>4 DEF ServerMoves
  <2> QED BY <2>5, ServerSide
<1>11. Executions'
  <2>1. ASSUME b # <<>> PROVE (g # <<>> /\ b[1] = g[1]) \/ b[1] = u[1]
    <3>1. CASE g = <<>>
      <4>1. g \o u = u
        BY <1>2, <3>1, ConcatEmptySeq
      <4> QED BY <1>1, <4>1
    <3>2. CASE g # <<>>
      <4>1. 1 \in 1 .. Len(g)
        BY <1>2, <3>2, EmptySeq, LenProperties
      <4>2. \A i \in 1 .. Len(g) : (g \o u)[i] = g[i]
        BY <1>2, ConcatProperties
      <4> QED BY <1>1, <3>2, <4>1, <4>2
    <3> QED BY <3>1, <3>2
  <2>2. \A n : Carries(n, f)' => Carries(n, f)
    <3>1. peer[f].got = g /\ wire[f].up = u /\ peer'[f].got = b /\ wire'[f].up = <<>>
      BY <1>1, <1>5, <1>6
    <3>2. \A n : b # <<>> /\ b[1][1] = n => (g # <<>> /\ g[1][1] = n) \/ u[1][1] = n
      BY <2>1
    <3> QED BY <1>3, <3>1, <3>2 DEF Carries
  <2>3. \A n : Carrying(n)' \subseteq Carrying(n)
    <3>1. \A n : Carries(n, f)' => Carries(n, f)
      BY <2>2
    <3>2. \A n : \A h \in Conn : h # f => (Carries(n, h)' <=> Carries(n, h)) /\ (Live(h)' <=> Live(h))
      BY <1>6 DEF Carries, Live
    <3>3. Live(f)
      BY <1>1, <1>3 DEF Live
    <3>4. \A n : \A h : \A t \in Caller : Sends(t, n, h)' <=> Sends(t, n, h)
      BY DEF Sends, ThreadAt
    <3> QED BY <3>1, <3>2, <3>3, <3>4 DEF Carrying
  <2>4. \A h \in Conn : wire'[h].server = "closed" => wire[h].server = "closed"
    BY <1>5, <1>6
  <2>5. \A t \in Caller : BrokenOff(t)' => BrokenOff(t) /\ thread'[t].call = thread[t].call /\ thread[t].call \in DOMAIN call
    BY <1>3, <2>4, StillBrokenOff DEF XInv
  <2> QED BY <1>3, <2>3, <2>5, Executed_, CallsAre DEF XInv, CallRecord
<1> QED BY <1>10, <1>11 DEF XInv

\* A connection that is gone is closed; more of a response is written.
LEMMA ConnectionEnds ==
    ASSUME XInv, NEW f \in Conn, wire[f].server = "open", wire[f].client = FALSE, NEW u \in {<<>>, wire[f].up},
           wire' = [wire EXCEPT ![f] = [wire[f] EXCEPT !.up = u, !.server = "closed"]],
           peer' = [peer EXCEPT ![f] = NewPeer],
           UNCHANGED <<thread, call, clients_, client, call_mutex, rpc_shutting_down_>>
    PROVE  XInv'
<1>1. PICK s, r : s = wire[f] /\ r = [s EXCEPT !.up = u, !.server = "closed"]
  OBVIOUS
<1>2. s \in WireRecord /\ u \in Seq(Unit) /\ Len(u) <= Room
  <2>1. <<>> \in Seq(Unit) /\ Len(<<>>) = 0
    BY EmptySeq
  <2>2. wire[f] \in WireRecord /\ wire[f].up \in Seq(Unit) /\ Len(wire[f].up) <= Room
    BY DEF XInv, RpcTypes, WireRecord
  <2>3. 0 <= Room
    BY Numbers
  <2> QED BY <1>1, <2>1, <2>2, <2>3
<1>3. /\ r \in WireRecord /\ r.server = "closed" /\ r.client = FALSE /\ r.up = u /\ r.down = s.down
  BY <1>1, <1>2 DEF WireRecord
<1>4. Len(r.up) <= Room /\ Len(r.down) <= Room /\ wire' = [wire EXCEPT ![f] = r]
  BY <1>1, <1>2, <1>3 DEF XInv, RpcTypes
<1>5. /\ call' \in Seq(CallRecord) /\ DOMAIN call' = DOMAIN call
      /\ \A n \in DOMAIN call : /\ call'[n].executed \in Nat /\ call'[n].executed >= call[n].executed
                                /\ call'[n].answer = call[n].answer /\ call'[n].result = call[n].result
                                /\ call'[n].wait = call[n].wait
  <2>1. \A n \in DOMAIN call : call[n].executed \in Nat
    BY CallsAre DEF XInv, CallRecord
  <2>2. call \in Seq(CallRecord)
    BY DEF XInv, RpcTypes
  <2> QED BY <2>1, <2>2
<1>6. /\ RpcTypes' /\ CallersOK' /\ Answers' /\ ClientsOK' /\ Requests' /\ Exchange'
      /\ \A n : Carrying(n)' \subseteq Carrying(n) \ {f}
      /\ \A t \in Caller : BrokenOff(t)' =>
            thread'[t].call = thread[t].call /\ thread[t].call \in DOMAIN call /\ BrokenOff(t)
  BY <1>3, <1>4, <1>5, HungUp
<1>7. Executions'
  BY <1>6, Executed_, CallsAre DEF XInv, CallRecord
<1> QED BY <1>6, <1>7 DEF XInv

\* writeResponse() goes on, to a client that is there.
LEMMA ResponseGrows ==
    ASSUME XInv, NEW f \in Conn, wire[f].server = "open", wire[f].client = TRUE,
           ~(peer[f].left = <<>>), WriteResponse(f, wire, peer[f].left),
           UNCHANGED <<thread, call, clients_, client, call_mutex, rpc_shutting_down_>>
    PROVE  XInv'
<1>1. PICK s, p, e, left, m : /\ s = wire[f] /\ p = peer[f] /\ s \in WireRecord /\ p \in PeerRecord
                              /\ e = s.down /\ left = p.left /\ m = Smaller(Room - Len(e), Len(left))
  BY DEF XInv, RpcTypes
<1>2. /\ e \in Seq(Unit) /\ left \in Seq(Unit) /\ left # <<>> /\ Len(e) <= Room /\ Len(e) \in Nat /\ Len(left) \in Nat
      /\ p.got = <<>>
  <2>1. e \in Seq(Unit) /\ left \in Seq(Unit) /\ Len(e) <= Room
    BY <1>1 DEF XInv, RpcTypes, WireRecord, PeerRecord
  <2>2. left # <<>> /\ p.got = <<>>
    BY <1>1 DEF XInv, Requests
  <2> QED BY <2>1, <2>2, LenProperties
<1>3. PICK d, rest : d = e \o SubSeq(left, 1, m) /\ rest = SubSeq(left, m + 1, Len(left))
  OBVIOUS
<1>4. ASSUME NEW k \in Nat, NEW n \in Nat, Piece(left, k, n)
      PROVE  /\ m \in 0 .. Len(left)
             /\ d \in Seq(Unit) /\ Len(d) = Len(e) + m /\ Len(d) <= Room
             /\ rest \in Seq(Unit) /\ Len(rest) = Len(left) - m /\ Piece(rest, k, n + m)
             /\ \A a \in Nat : n = a + Len(e) /\ Piece(e, k, a) => Piece(d, k, a)
  <2>1. m = Smaller(Room - Len(e), Len(left))
    BY <1>1
  <2>2. /\ m \in 0 .. Len(left)
        /\ e \o SubSeq(left, 1, m) \in Seq(Unit) /\ Len(e \o SubSeq(left, 1, m)) = Len(e) + m /\ Len(e) + m <= Room
        /\ SubSeq(left, m + 1, Len(left)) \in Seq(Unit) /\ Len(SubSeq(left, m + 1, Len(left))) = Len(left) - m
        /\ Piece(SubSeq(left, m + 1, Len(left)), k, n + m)
        /\ \A a \in Nat : n = a + Len(e) /\ Piece(e, k, a) => Piece(e \o SubSeq(left, 1, m), k, a)
    BY <1>2, <1>4, <2>1, Writes
  <2> QED BY <1>3, <2>2
<1>5. /\ m \in 0 .. Len(left) /\ d \in Seq(Unit) /\ Len(d) <= Room /\ rest \in Seq(Unit)
  <2>0. m = Smaller(Room - Len(e), Len(left))
    BY <1>1
  <2>a. Len(e) \in Nat /\ Len(left) \in Nat /\ Len(e) <= Room
    BY <1>2
  <2>b. Room \in Nat
    BY Numbers
  <2>1. m \in 0 .. Len(left) /\ Len(e) + m <= Room
    BY <2>0, <2>a, <2>b DEF Smaller
  <2>2. /\ SubSeq(left, 1, m) \in Seq(Unit) /\ Len(SubSeq(left, 1, m)) = m /\ SubSeq(left, m + 1, Len(left)) \in Seq(Unit)
    BY <1>2, <2>1, SubSeqProperties
  <2>3. d \in Seq(Unit) /\ Len(d) = Len(e) + m
    BY <1>2, <1>3, <2>2, ConcatProperties
  <2> QED BY <1>3, <2>1, <2>2, <2>3
<1>6. PICK r, q : r = [s EXCEPT !.down = d] /\ q = [got |-> <<>>, left |-> rest]
  OBVIOUS
<1>7. /\ r \in WireRecord /\ r.up = s.up /\ r.down = d /\ r.client = s.client /\ r.server = "open" /\ r.reset = s.reset
      /\ q \in PeerRecord /\ q.got = <<>> /\ q.left = rest /\ s.server = "open"
  <2>1. <<>> \in Seq(Unit) /\ s.server = "open"
    BY <1>1, EmptySeq
  <2> QED BY <1>1, <1>5, <1>6, <2>1 DEF WireRecord, PeerRecord
<1>8. /\ wire' = [wire EXCEPT ![f] = r] /\ peer' = [peer EXCEPT ![f] = q]
      /\ wire'[f] = r /\ peer'[f] = q /\ \A h \in Conn : h # f => wire'[h] = wire[h] /\ peer'[h] = peer[h]
  <2>1. wire' = [wire EXCEPT ![f].down = d] /\ peer' = [peer EXCEPT ![f] = q]
    BY <1>1, <1>3, <1>6 DEF WriteResponse
  <2>2. wire' = [wire EXCEPT ![f] = r]
    BY <1>1, <1>6, <2>1 DEF XInv, RpcTypes
  <2> QED BY <2>1, <2>2 DEF XInv, RpcTypes
<1>9. \A i \in Client : ~(client[i].fd = f /\ client[i].state = "IDLE")
  BY <1>1, <1>2, <1>7 DEF XInv, ClientsOK, Live, NewPeer
<1>10. ASSUME NEW t \in Caller, ThreadAt(t, "work"), client[thread[t].client].fd = f
       PROVE  Exchanging(client[thread[t].client], thread[t].call, r, q, call[thread[t].call].executed)
  <2>1. PICK c, n, x : c = client[thread[t].client] /\ n = thread[t].call /\ x = call[n].executed
    OBVIOUS
  <2>2. n \in DOMAIN call /\ c \in ClientRecord /\ n \in Nat /\ thread[t].client \in Client
    BY <1>10, <2>1, WorksOn, CallsAre DEF XInv
  <2>3. Exchanging(c, n, s, p, x)
    BY <1>1, <1>10, <2>1 DEF XInv, Exchange
  <2>4. ~Sending(c, n, s, p) /\ ~Requested(c, n, s, p)
    BY <1>1, <1>2, <1>7 DEF Sending, Requested
  <2>5. ASSUME Awaiting(c, n, s, p, x) PROVE Awaiting(c, n, r, q, x)
    <3>1. PICK cg : cg = c.got
      OBVIOUS
    <3>2. cg \in Seq(Unit) /\ Len(cg) \in Nat
      BY <2>2, <3>1, LenProperties DEF ClientRecord
    <3>3. Answering(c, n, s, p, x)
      BY <1>7, <2>4, <2>5 DEF Awaiting
    <3>4. s.up = <<>> /\ Piece(left, n, Len(cg) + Len(e)) /\ Len(cg) + Len(e) + Len(left) = Size /\ x >= 1
      BY <1>1, <3>1, <3>3 DEF Answering
    <3>5. Piece(cg, n, 0) /\ Piece(e, n, Len(cg))
      BY <1>1, <2>5, <3>1 DEF Awaiting
    <3>6. /\ Len(d) = Len(e) + m /\ Len(rest) = Len(left) - m /\ Piece(rest, n, (Len(cg) + Len(e)) + m) /\ m \in 0 .. Len(left)
          /\ Piece(d, n, Len(cg))
      <4>1. PICK a \in Nat, b \in Nat : a = Len(cg) /\ b = a + Len(e)
        BY <1>2, <3>2
      <4>2. Piece(left, n, b) /\ Piece(e, n, a)
        BY <3>4, <3>5, <4>1
      <4>3. /\ m \in 0 .. Len(left) /\ Len(d) = Len(e) + m /\ Len(rest) = Len(left) - m /\ Piece(rest, n, b + m)
            /\ Piece(d, n, a)
        BY <1>4, <2>2, <4>1, <4>2
      <4> QED BY <4>1, <4>3
    <3>7. /\ (Len(cg) + Len(e)) + m = Len(cg) + Len(d) /\ Len(cg) + Len(d) + Len(rest) = Size /\ Len(cg) + Len(d) <= Size
      BY <1>2, <3>2, <3>4, <3>6, Numbers
    <3>8. Piece(rest, n, Len(cg) + Len(d))
      BY <3>6, <3>7
    <3>9. Answering(c, n, r, q, x)
      BY <1>7, <3>1, <3>4, <3>7, <3>8 DEF Answering
    <3> QED BY <1>7, <3>1, <3>4, <3>5, <3>6, <3>7, <3>9 DEF Awaiting
  <2>6. c.state # "IDLE"
    BY <1>9, <1>10, <2>1, <2>2
  <2> QED BY <1>7, <2>1, <2>3, <2>4, <2>5, <2>6 DEF Exchanging
<1>11. RpcTypes' /\ CallersOK' /\ Answers' /\ ClientsOK' /\ Requests' /\ Exchange'
  <2>1. \E n \in DOMAIN call : /\ Piece(q.got, n, 0) /\ Piece(r.up, n, Len(q.got))
                               /\ Len(q.got) < Size /\ Len(q.got) + Len(r.up) <= Size
    <3>1. wire[f].up = r.up /\ peer[f].got = q.got /\ Live(f)
      BY <1>1, <1>2, <1>7 DEF Live
    <3> QED BY <3>1 DEF XInv, Requests
  <2>2. r.client = wire[f].client /\ ~r.reset /\ Len(r.up) <= Room /\ Len(r.down) <= Room
    <3>1. ~s.reset /\ Len(s.up) <= Room
      BY <1>1, <1>7 DEF XInv, Requests, RpcTypes, WireRecord
    <3> QED BY <1>1, <1>5, <1>7, <3>1
  <2>3. /\ call' \in Seq(CallRecord) /\ DOMAIN call' = DOMAIN call
        /\ \A n \in DOMAIN call : /\ call'[n].executed \in Nat /\ call'[n].executed >= call[n].executed
                                  /\ call'[n].answer = call[n].answer /\ call'[n].result = call[n].result
                                  /\ call'[n].wait = call[n].wait
    <3>1. \A n \in DOMAIN call : call[n].executed \in Nat
      BY CallsAre DEF XInv, CallRecord
    <3>2. call \in Seq(CallRecord)
      BY DEF XInv, RpcTypes
    <3> QED BY <3>1, <3>2
  <2>4. \A t \in Caller : ThreadAt(t, "work") /\ client[thread[t].client].fd = f =>
          Exchanging(client[thread[t].client], thread[t].call, r, q, call'[thread[t].call].executed)
    BY <1>10
  <2>5. ServerMoves(f, r, q)
    BY <1>7, <1>8, <1>9, <2>1, <2>2, <2>3, <2>4 DEF ServerMoves
  <2> QED BY <2>5, ServerSide
<1>12. Executions'
  <2>1. \A n : \A h \in Conn : (Carries(n, h)' <=> Carries(n, h)) /\ (Live(h)' <=> Live(h))
    BY <1>1, <1>2, <1>7, <1>8 DEF Carries, Live
  <2>2. \A n : \A h : \A t \in Caller : Sends(t, n, h)' <=> Sends(t, n, h)
    BY DEF Sends, ThreadAt
  <2>3. \A n : Carrying(n)' \subseteq Carrying(n)
    BY <2>1, <2>2 DEF Carrying
  <2>4. \A h \in Conn : wire'[h].server = "closed" => wire[h].server = "closed"
    BY <1>7, <1>8
  <2>5. \A t \in Caller : BrokenOff(t)' => BrokenOff(t) /\ thread'[t].call = thread[t].call /\ thread[t].call \in DOMAIN call
    BY <2>4, StillBrokenOff DEF XInv
  <2> QED BY <2>3, <2>5, Executed_, CallsAre DEF XInv, CallRecord
<1> QED BY <1>11, <1>12 DEF XInv

LEMMA HandleEventInv ==
    ASSUME XInv, NEW f \in Conn, HandleEvent(f)
    PROVE  XInv'
<1>1. /\ wire[f].server = "open" /\ UNCHANGED <<thread, clients_, client, call_mutex, rpc_shutting_down_>>
      /\ wire[f] \in WireRecord /\ wire[f].client \in BOOLEAN
  BY DEF HandleEvent, XInv, RpcTypes, WireRecord
<1>2. PICK s : s = wire[f]
  OBVIOUS
<1>3. CASE Whole(f)
  <2>1. ReadRequest(f)
    BY <1>3 DEF HandleEvent, Whole
  <2> QED BY <1>1, <1>3, <2>1, RequestExecuted
<1>4. CASE Partial(f)
  <2>1. ReadRequest(f)
    BY <1>4 DEF HandleEvent, Partial
  <2>2. CASE wire[f].client = TRUE
    BY <1>1, <1>4, <2>1, <2>2, RequestGrows
  <2>3. CASE wire[f].client = FALSE
    <3>1. PICK taken : taken = [wire EXCEPT ![f].up = <<>>]
      OBVIOUS
    <3>2. UNCHANGED call /\ wire' = [taken EXCEPT ![f].server = "closed"] /\ peer' = [peer EXCEPT ![f] = NewPeer]
      BY <1>4, <2>1, <2>3, <3>1 DEF ReadRequest, Partial
    <3>3. wire' = [wire EXCEPT ![f] = [wire[f] EXCEPT !.up = <<>>, !.server = "closed"]]
      BY <1>1, <3>1, <3>2 DEF XInv, RpcTypes, WireRecord
    <3> QED BY <1>1, <2>3, <3>2, <3>3, ConnectionEnds
  <2> QED BY <1>1, <2>2, <2>3
<1>5. CASE ~(peer[f].left = <<>>)
  <2>1. WriteResponse(f, wire, peer[f].left) /\ UNCHANGED call
    BY <1>5 DEF HandleEvent
  <2>2. CASE wire[f].client = TRUE
    BY <1>1, <1>5, <2>1, <2>2, ResponseGrows
  <2>3. CASE wire[f].client = FALSE
    <3>1. wire' = [wire EXCEPT ![f].server = "closed"] /\ peer' = [peer EXCEPT ![f] = NewPeer]
      BY <2>1, <2>3 DEF WriteResponse
    <3>2. wire' = [wire EXCEPT ![f] = [wire[f] EXCEPT !.up = wire[f].up, !.server = "closed"]]
      BY <1>1, <3>1 DEF XInv, RpcTypes, WireRecord
    <3> QED BY <1>1, <2>1, <2>3, <3>1, <3>2, ConnectionEnds
  <2> QED BY <1>1, <2>2, <2>3
<1> QED BY <1>3, <1>4, <1>5 DEF Whole, Partial

-----------------------------------------------------------------------------
(* The clients' ends.                                                           *)

\* Thread t, which holds the mutex then, has changed its client i to d, and what it has
\* closed, opened, written or read of the connections with it.
ClientMoves(t, i, d, k) ==
    /\ t \in Caller /\ i = thread[t].client /\ k = thread[t].call /\ thread[t].at \in {"call", "work"}
    /\ thread' = [thread EXCEPT ![t].at = "work"] /\ call_mutex \in {None, t} /\ call_mutex' = t
    /\ UNCHANGED <<call, clients_, rpc_shutting_down_, peer>>
    /\ client' = [client EXCEPT ![i] = d] /\ d \in ClientRecord /\ d.in_use_
    /\ wire' \in [Conn -> WireRecord]
    /\ \A f \in Conn : Len(wire'[f].up) <= Room /\ Len(wire'[f].down) <= Room
    /\ \A j \in Client : j # i /\ client[j].fd # None =>
          wire'[client[j].fd] = wire[client[j].fd] /\ client[j].fd # d.fd
    /\ d.fd = None <=> d.state = "NO_CONNECTION"
    /\ d.fd # None => wire'[d.fd].client /\ wire'[d.fd].server # "none"
    /\ d.watched => d.state \in {"WRITE_REQUEST", "READ"}
    /\ d.state = "IDLE" =>
          /\ wire'[d.fd].server \in {"open", "closed"} /\ wire'[d.fd].down = <<>>
          /\ wire'[d.fd].server \in {"queued", "open"} => wire'[d.fd].up = <<>> /\ peer[d.fd] = NewPeer
    /\ Requests'
    /\ Exchanging(d, k, wire'[d.fd], peer[d.fd], call[k].executed)

LEMMA ClientSide ==
    ASSUME XInv, NEW t, NEW i, NEW d, NEW k, ClientMoves(t, i, d, k)
    PROVE  RpcTypes' /\ CallersOK' /\ Answers' /\ ClientsOK' /\ Requests' /\ Exchange'
<1> USE Numbers
<1>0. /\ t \in Caller /\ i = thread[t].client /\ k = thread[t].call /\ thread[t].at \in {"call", "work"}
      /\ thread' = [thread EXCEPT ![t].at = "work"] /\ call_mutex \in {None, t} /\ call_mutex' = t
      /\ UNCHANGED <<call, clients_, rpc_shutting_down_, peer>>
      /\ client' = [client EXCEPT ![i] = d] /\ d \in ClientRecord /\ d.in_use_
  BY DEF ClientMoves
<1>1. Active(t) /\ i \in Known /\ i \in Client /\ k \in DOMAIN call /\ thread[t] \in ThreadRecord
  <2>1. Active(t)
    BY <1>0 DEF Active
  <2> QED BY <1>0, <2>1, WorksWith DEF XInv, RpcTypes
<1>2. PICK r : r = [thread[t] EXCEPT !.at = "work"]
  OBVIOUS
<1>3. /\ r \in ThreadRecord /\ r.at = "work" /\ r.call = k /\ r.client = i
      /\ thread' = [thread EXCEPT ![t] = r] /\ thread' \in [Caller -> ThreadRecord]
      /\ thread'[t] = r /\ \A u \in Caller : u # t => thread'[u] = thread[u]
  BY <1>0, <1>1, <1>2 DEF ThreadRecord, XInv, RpcTypes
<1>4. client'[i] = d /\ client' \in [Client -> ClientRecord] /\ \A j \in Client : j # i => client'[j] = client[j]
  BY <1>0, <1>1 DEF XInv, RpcTypes
<1>5. RpcTypes'
  BY <1>0, <1>3, <1>4 DEF ClientMoves, XInv, RpcTypes
<1>6. CallersOK'
  <2>1. \A u \in Caller : /\ ThreadAt(u, "idle")' => thread'[u] = Nowhere
                          /\ ThreadAt(u, "work")' \/ ThreadAt(u, "worked")' => call_mutex' = u
    <3>1. \A u \in Caller : u # t => ~ThreadAt(u, "work") /\ ~ThreadAt(u, "worked")
      BY <1>0 DEF XInv, CallersOK
    <3> QED BY <1>0, <1>3, <3>1 DEF XInv, CallersOK, ThreadAt
  <2>2. \A u \in Caller : /\ Active(u)' => Active(u)
                          /\ thread'[u].call = thread[u].call /\ thread'[u].client = thread[u].client
                          /\ ~ThreadAt(u, "executed")' => ~ThreadAt(u, "executed")
    BY <1>0, <1>1, <1>3 DEF Active, ThreadAt
  <2>3. \A j \in Client : InUse(j)' <=> InUse(j)
    <3>1. InUse(i)
      BY <1>0, <1>1 DEF XInv, CallersOK
    <3> QED BY <1>0, <1>4, <3>1 DEF InUse
  <2>4. ASSUME NEW u \in Caller, Active(u)'
        PROVE  /\ thread'[u].call \in DOMAIN call' /\ call'[thread'[u].call].result = "none"
               /\ thread'[u].client \in Known' /\ client'[thread'[u].client].in_use_
               /\ ~ThreadAt(u, "executed")' => call'[thread'[u].call].answer = None
    <3>1. Active(u) /\ thread[u].client \in Client
      BY <2>2, <2>4, WorksWith DEF XInv
    <3>2. /\ thread[u].call \in DOMAIN call /\ InProgress(thread[u].call)
          /\ thread[u].client \in Known /\ InUse(thread[u].client)
          /\ ~ThreadAt(u, "executed") => call[thread[u].call].answer = None
      BY <3>1 DEF XInv, CallersOK
    <3>3. client'[thread[u].client].in_use_ /\ call'[thread[u].call].result = "none" /\ thread[u].client \in Known'
      <4>1. PICK j : j = thread[u].client /\ j \in Client
        BY <3>1
      <4>2. InUse(j)'
        BY <2>3, <3>2, <4>1
      <4>3. client'[j].in_use_
        BY <4>2 DEF InUse
      <4> QED BY <1>0, <3>2, <4>1, <4>3 DEF InProgress, Known
    <3>4. /\ thread'[u].call = thread[u].call /\ thread'[u].client = thread[u].client
          /\ ~ThreadAt(u, "executed")' => ~ThreadAt(u, "executed")
      BY <2>2
    <3> QED BY <1>0, <3>2, <3>3, <3>4
  <2>5. \A u, v \in Caller : Active(u)' /\ Active(v)' /\ u # v =>
          thread'[u].client # thread'[v].client /\ thread'[u].call # thread'[v].call
    BY <2>2 DEF XInv, CallersOK
  <2>6. ASSUME NEW j \in Known', InUse(j)' PROVE \E u \in Caller : Active(u)' /\ thread'[u].client = j
    <3>1. j \in Known /\ j \in Client
      BY <1>0 DEF Known, XInv, RpcTypes, ToSet
    <3>2. PICK u \in Caller : Active(u) /\ thread[u].client = j
      BY <2>3, <2>6, <3>1 DEF XInv, CallersOK
    <3>3. Active(u)'
      BY <1>3, <3>2 DEF Active, ThreadAt
    <3> QED BY <2>2, <3>2, <3>3
  <2>7. \A j \in Client \ Known' : client'[j] = NewClient
    BY <1>0, <1>1, <1>4 DEF Known, XInv, CallersOK
  <2>8. \A u \in Caller : Active(u)' =>
          /\ thread'[u].call \in DOMAIN call' /\ call'[thread'[u].call].result = "none"
          /\ thread'[u].client \in Known' /\ client'[thread'[u].client].in_use_
          /\ ~ThreadAt(u, "executed")' => call'[thread'[u].call].answer = None
    BY <2>2, <2>4 DEF InProgress, InUse
  <2> QED BY <2>1, <2>5, <2>6, <2>7, <2>8 DEF CallersOK, Active, ThreadAt, InProgress, InUse
<1>7. Answers'
  BY <1>0 DEF XInv, Answers
<1>8. ClientsOK'
  <2>1. \A j \in Client : j # i => client'[j] = client[j] /\ (client[j].fd # None => wire'[client[j].fd] = wire[client[j].fd])
    BY <1>4 DEF ClientMoves
  <2>2. ASSUME NEW j \in Client, NEW c, c = client'[j]
        PROVE  /\ c.fd = None <=> c.state = "NO_CONNECTION"
               /\ c.fd # None => wire'[c.fd].client /\ wire'[c.fd].server # "none"
               /\ c.watched => c.state \in {"WRITE_REQUEST", "READ"}
               /\ c.state = "IDLE" =>
                     /\ wire'[c.fd].server \in {"open", "closed"} /\ wire'[c.fd].down = <<>>
                     /\ wire'[c.fd].server \in {"queued", "open"} => wire'[c.fd].up = <<>> /\ peer'[c.fd] = NewPeer
    <3>1. CASE j = i
      BY <1>0, <1>4, <2>2, <3>1 DEF ClientMoves
    <3>2. CASE j # i
      <4>1. /\ c.fd = None <=> c.state = "NO_CONNECTION"
            /\ c.fd # None => wire[c.fd].client /\ wire[c.fd].server # "none"
            /\ c.watched => c.state \in {"WRITE_REQUEST", "READ"}
            /\ c.state = "IDLE" =>
                  /\ wire[c.fd].server \in {"open", "closed"} /\ wire[c.fd].down = <<>>
                  /\ wire[c.fd].server \in {"queued", "open"} => wire[c.fd].up = <<>> /\ peer[c.fd] = NewPeer
        BY <2>1, <2>2, <3>2 DEF XInv, ClientsOK, Live
      <4>2. c.fd # None => wire'[c.fd] = wire[c.fd]
        BY <2>1, <2>2, <3>2
      <4> QED BY <1>0, <4>1, <4>2
    <3> QED BY <3>1, <3>2
  <2>3. ASSUME NEW j \in Client, NEW l \in Client, j # l, client'[j].fd = client'[l].fd PROVE client'[j].fd = None
    <3>1. \A m \in Client : m # i /\ client[m].fd # None => client[m].fd # d.fd
      BY DEF ClientMoves
    <3>2. CASE j # i /\ l # i
      BY <1>4, <2>3, <3>2 DEF XInv, ClientsOK
    <3>3. CASE j = i \/ l = i
      BY <1>4, <2>3, <3>1, <3>3
    <3> QED BY <3>2, <3>3
  <2> QED BY <2>2, <2>3 DEF ClientsOK, Live
<1>9. Requests'
  BY DEF ClientMoves
<1>10. Exchange'
  <2>1. \A u \in Caller : u # t => ~ThreadAt(u, "work") /\ ~ThreadAt(u, "worked")
    BY <1>0 DEF XInv, CallersOK
  <2>2. \A u \in Caller : ThreadAt(u, "work")' \/ ThreadAt(u, "worked")' => u = t /\ ~ThreadAt(u, "worked")'
    BY <1>3, <2>1 DEF ThreadAt
  <2>3. Exchanging(client'[thread'[t].client], thread'[t].call, wire'[client'[thread'[t].client].fd],
                   peer'[client'[thread'[t].client].fd], call'[thread'[t].call].executed)
    BY <1>0, <1>3, <1>4 DEF ClientMoves
  <2> QED BY <2>2, <2>3 DEF Exchange
<1> QED BY <1>5, <1>6, <1>7, <1>8, <1>9, <1>10

\* Nobody else is at work, and the others' calls are as they were.
LEMMA OthersWait ==
    ASSUME XInv, NEW t, NEW i, NEW d, NEW k, ClientMoves(t, i, d, k)
    PROVE  /\ t \in Caller /\ i \in Client /\ k \in DOMAIN call /\ k = thread[t].call /\ Active(t)
           /\ call' = call /\ peer' = peer /\ client'[i] = d /\ thread'[t].call = k /\ ThreadAt(t, "work")'
           /\ thread'[t].client = i
           /\ \A u \in Caller : u # t => /\ ~ThreadAt(u, "work")' /\ (BrokenOff(u)' => BrokenOff(u))
                                         /\ thread'[u] = thread[u]
                                         /\ (BrokenOff(u) => thread[u].call # k)
<1> USE Numbers
<1>0. /\ t \in Caller /\ i = thread[t].client /\ k = thread[t].call /\ thread[t].at \in {"call", "work"}
      /\ thread' = [thread EXCEPT ![t].at = "work"] /\ call_mutex \in {None, t}
      /\ call' = call /\ peer' = peer /\ client' = [client EXCEPT ![i] = d]
  BY DEF ClientMoves
<1>1. Active(t) /\ i \in Client /\ k \in DOMAIN call /\ thread[t] \in ThreadRecord
  <2>1. Active(t)
    BY <1>0 DEF Active
  <2> QED BY <1>0, <2>1, WorksWith DEF XInv, RpcTypes
<1>2. /\ \A u \in Caller : u # t => thread'[u] = thread[u]
      /\ thread'[t].call = k /\ thread'[t].client = i /\ thread'[t].at = "work" /\ client'[i] = d
  BY <1>0, <1>1 DEF XInv, RpcTypes, ThreadRecord
<1>3. ASSUME NEW u \in Caller, u # t
      PROVE  ~ThreadAt(u, "work")' /\ (BrokenOff(u)' => BrokenOff(u)) /\ (BrokenOff(u) => thread[u].call # k)
  <2>1. ~ThreadAt(u, "work") /\ thread'[u] = thread[u]
    BY <1>0, <1>2, <1>3 DEF XInv, CallersOK
  <2>2. ~ThreadAt(u, "work")'
    BY <2>1 DEF ThreadAt
  <2>3. BrokenOff(u)' => BrokenOff(u)
    BY <1>0, <2>1, <2>2 DEF BrokenOff, ThreadAt
  <2>4. BrokenOff(u) => Active(u)
    BY DEF BrokenOff, Active, ThreadAt
  <2>5. BrokenOff(u) => thread[u].call # k
    BY <1>0, <1>1, <1>3, <2>4 DEF XInv, CallersOK
  <2> QED BY <2>2, <2>3, <2>5
<1> QED BY <1>0, <1>1, <1>2, <1>3 DEF ThreadAt

\* What is carried then, if only f0 gets anything to carry.
LEMMA MovesCarry ==
    ASSUME XInv, NEW t, NEW i, NEW d, NEW k, ClientMoves(t, i, d, k), NEW f0,
           \A f \in Conn : f # f0 =>
              /\ wire'[f].server \in {"queued", "open"} => Live(f)
              /\ wire'[f].up = wire[f].up,
           d.watched /\ d.state = "WRITE_REQUEST" => d.fd = f0
    PROVE  \A n : /\ Carrying(n)' \subseteq Carrying(n) \cup {f0}
                  /\ f0 \in Carrying(n)' => /\ wire'[f0].server \in {"queued", "open"}
                                            /\ \/ peer[f0].got # <<>> /\ peer[f0].got[1][1] = n
                                               \/ wire'[f0].up # <<>> /\ wire'[f0].up[1][1] = n
                                               \/ n = k /\ d.watched /\ d.state = "WRITE_REQUEST"
<1>1. /\ t \in Caller /\ peer' = peer /\ client'[i] = d /\ thread'[t].call = k
      /\ thread'[t].client = i
      /\ \A u \in Caller : u # t => ~ThreadAt(u, "work")'
  BY OthersWait
<1>2. ASSUME NEW n, NEW f \in Conn, NEW u \in Caller, Sends(u, n, f)'
      PROVE  n = k /\ d.watched /\ d.state = "WRITE_REQUEST" /\ f = f0
  <2>1. u = t
    BY <1>1, <1>2 DEF Sends
  <2>2. thread'[t].call = n /\ client'[i].watched /\ client'[i].state = "WRITE_REQUEST" /\ client'[i].fd = f
    BY <1>1, <1>2, <2>1 DEF Sends
  <2> QED BY <1>1, <2>2
<1>3. ASSUME NEW n, NEW f \in Conn, f # f0, f \in Carrying(n)' PROVE f \in Carrying(n)
  <2>1. Live(f) /\ wire'[f].up = wire[f].up
    BY <1>3 DEF Carrying, Live
  <2>2. Carries(n, f)'
    BY <1>2, <1>3 DEF Carrying
  <2>3. Carries(n, f)
    BY <1>1, <2>1, <2>2 DEF Carries
  <2> QED BY <2>1, <2>3 DEF Carrying
<1>4. ASSUME NEW n, f0 \in Carrying(n)'
      PROVE  /\ wire'[f0].server \in {"queued", "open"}
             /\ \/ peer[f0].got # <<>> /\ peer[f0].got[1][1] = n
                \/ wire'[f0].up # <<>> /\ wire'[f0].up[1][1] = n
                \/ n = k /\ d.watched /\ d.state = "WRITE_REQUEST"
  BY <1>1, <1>2, <1>4 DEF Carrying, Carries, Live
<1> QED BY <1>3, <1>4 DEF Carrying

LEMMA ClientKeeps ==
    ASSUME XInv, NEW t, NEW i, NEW d, NEW k, ClientMoves(t, i, d, k),
           \A n : Carrying(n)' \subseteq Carrying(n), BrokenOff(t)' => BrokenOff(t)
    PROVE  XInv'
<1>1. /\ t \in Caller /\ k \in DOMAIN call /\ k = thread[t].call /\ call' = call /\ thread'[t].call = k
      /\ \A u \in Caller : u # t => (BrokenOff(u)' => BrokenOff(u)) /\ thread'[u] = thread[u]
  BY OthersWait
<1>2. \A u \in Caller : BrokenOff(u)' => /\ BrokenOff(u) /\ thread'[u].call = thread[u].call
                                         /\ thread[u].call \in DOMAIN call
  BY <1>1, HasCall DEF XInv
<1>3. Executions'
  BY <1>1, <1>2, Executed_, CallsAre DEF XInv, CallRecord
<1> QED BY <1>3, ClientSide DEF XInv

\* A thread that had to send again does.
LEMMA ClientSends ==
    ASSUME XInv, NEW t, NEW i, NEW d, NEW k, ClientMoves(t, i, d, k), NEW f0,
           \A n : Carrying(n)' \subseteq IF n = k THEN Carrying(n) \cup {f0} ELSE Carrying(n),
           BrokenOff(t), ~BrokenOff(t)'
    PROVE  XInv'
<1>1. /\ t \in Caller /\ k \in DOMAIN call /\ k = thread[t].call /\ call' = call /\ thread'[t].call = k
      /\ \A u \in Caller : u # t => /\ BrokenOff(u)' => BrokenOff(u)
                                    /\ thread'[u] = thread[u] /\ (BrokenOff(u) => thread[u].call # k)
  BY OthersWait
<1>2. \A n \in DOMAIN call : call[n].executed \in Nat /\ call[n].disturbed \in Nat
  BY CallsAre DEF XInv, CallRecord
<1>3. \A n \in DOMAIN call : IsFiniteSet(Carrying(n)) /\ call[n].executed + Cardinality(Carrying(n)) <= 1 + call[n].disturbed
  BY DEF XInv, Executions
<1>4. ASSUME NEW n \in DOMAIN call, n # k
      PROVE  /\ IsFiniteSet(Carrying(n)') /\ Cardinality(Carrying(n)') \in Nat /\ Cardinality(Carrying(n)) \in Nat
             /\ Cardinality(Carrying(n)') <= Cardinality(Carrying(n))
  BY <1>3, <1>4, FewerElements
<1>5. /\ IsFiniteSet(Carrying(k)') /\ Cardinality(Carrying(k)') \in Nat /\ Cardinality(Carrying(k)) \in Nat
      /\ Cardinality(Carrying(k)') <= Cardinality(Carrying(k)) + 1
  BY <1>1, <1>3, OneMore
<1>6. call[k].executed + Cardinality(Carrying(k)) <= call[k].disturbed
  BY <1>1 DEF XInv, Executions
<1>7. ASSUME NEW n \in DOMAIN call'
      PROVE  IsFiniteSet(Carrying(n)') /\ call'[n].executed + Cardinality(Carrying(n)') <= 1 + call'[n].disturbed
  <2>1. CASE n # k
    BY <1>1, <1>2, <1>3, <1>4, <2>1
  <2>2. CASE n = k
    <3>1. PICK x, y : x = call[k].executed /\ y = call[k].disturbed
      OBVIOUS
    <3>2. x \in Nat /\ y \in Nat /\ x + Cardinality(Carrying(k)) <= y
      BY <1>1, <1>2, <1>6, <3>1
    <3>3. x + Cardinality(Carrying(k)') <= 1 + y
      BY <1>5, <3>2
    <3> QED BY <1>1, <1>5, <2>2, <3>1, <3>3
  <2> QED BY <2>1, <2>2
<1>8. ASSUME NEW u \in Caller, BrokenOff(u)', NEW n, n = thread'[u].call
      PROVE  call'[n].executed + Cardinality(Carrying(n)') <= call'[n].disturbed
  <2>1. BrokenOff(u) /\ thread[u].call = n /\ n # k /\ n \in DOMAIN call
    BY <1>1, <1>8, HasCall DEF XInv
  <2>2. call[n].executed + Cardinality(Carrying(n)) <= call[n].disturbed
    BY <2>1 DEF XInv, Executions
  <2> QED BY <1>1, <1>2, <1>4, <2>1, <2>2
<1>9. Executions'
  BY <1>7, <1>8 DEF Executions
<1> QED BY <1>9, ClientSide DEF XInv

\* The connections when client i has closed its own, or has read or reset it: w.
LeftBy(w, i) ==
    /\ w \in [Conn -> WireRecord]
    /\ \A f \in Conn : /\ w[f].server = wire[f].server /\ w[f].up = wire[f].up
                       /\ w[f].reset => w[f].server = "closed"
                       /\ Len(w[f].down) <= Room
    /\ \A j \in Client : j # i /\ client[j].fd # None => w[client[j].fd] = wire[client[j].fd]

\* The connection that a client takes next: what it has to do with the calls.
LEMMA Taken ==
    ASSUME XInv, NEW i \in Client, NEW w, LeftBy(w, i), NEW f \in Conn, UnusedNumber(f, w)
    PROVE  /\ peer[f] = NewPeer /\ w[f].server \in {"none", "closed"} /\ ~Live(f)
           /\ \A j \in Client : j # i => client[j].fd # f
<1>1. w[f].server \in {"none", "closed"} /\ ~w[f].client /\ wire[f].server = w[f].server
  BY DEF LeftBy, UnusedNumber
<1>2. peer[f] = NewPeer /\ ~Live(f)
  BY <1>1 DEF XInv, Requests, Live
<1>3. ASSUME NEW j \in Client, j # i, client[j].fd = f PROVE FALSE
  <2>1. f # None
    BY Numbers
  <2>2. wire[f].client
    BY <1>3, <2>1 DEF XInv, ClientsOK
  <2>3. w[f] = wire[f]
    BY <1>3, <2>1 DEF LeftBy
  <2> QED BY <1>1, <2>2, <2>3
<1> QED BY <1>1, <1>2, <1>3

LEMMA ConnectInv ==
    ASSUME XInv, NEW t \in Caller, NEW i, i = thread[t].client, NEW k, k = thread[t].call,
           thread[t].at \in {"call", "work"}, BrokenOff(t),
           NEW c \in ClientRecord, c.in_use_, c.fd = None, c.state = "NO_CONNECTION", c.watched = FALSE,
           NEW w, LeftBy(w, i), Connect(i, c, k, w),
           thread' = [thread EXCEPT ![t].at = "work"], call_mutex \in {None, t}, call_mutex' = t,
           UNCHANGED <<call, clients_, rpc_shutting_down_, peer>>
    PROVE  XInv'
<1>0. i \in Client /\ k \in DOMAIN call /\ k \in Nat /\ thread[t] \in ThreadRecord /\ wire \in [Conn -> WireRecord]
  <2>1. Active(t)
    BY DEF Active
  <2> QED BY <2>1, WorksWith, CallsAre DEF XInv, RpcTypes
<1>1. ThreadAt(t, "work")' /\ thread'[t].client = i
  BY <1>0 DEF ThreadAt, XInv, RpcTypes, ThreadRecord
<1>2. CASE ~server_up /\ wire' = w /\ client' = [client EXCEPT ![i] = c]
  <2>1. ASSUME NEW f \in Conn
        PROVE  /\ Len(wire'[f].up) <= Room /\ Len(wire'[f].down) <= Room
               /\ wire'[f].reset => wire'[f].server = "closed"
               /\ wire'[f].server # "open" => peer[f] = NewPeer
               /\ peer[f].left # <<>> => peer[f].got = <<>>
               /\ wire'[f].server \in {"queued", "open"} => Live(f)
               /\ wire'[f].up = wire[f].up /\ wire'[f].server = wire[f].server
    BY <1>2 DEF LeftBy, XInv, RpcTypes, Requests, Live
  <2>2. Requests'
    <3>1. ASSUME NEW f \in Conn, wire'[f].server \in {"queued", "open"}
          PROVE  \E n \in DOMAIN call : /\ Piece(peer[f].got, n, 0) /\ Piece(wire'[f].up, n, Len(peer[f].got))
                                        /\ Len(peer[f].got) < Size /\ Len(peer[f].got) + Len(wire'[f].up) <= Size
      <4>1. Live(f) /\ wire'[f].up = wire[f].up
        BY <2>1, <3>1
      <4> QED BY <4>1 DEF XInv, Requests
    <3> QED BY <2>1, <3>1 DEF Requests, Live
  <2>3. \A j \in Client : j # i /\ client[j].fd # None => wire'[client[j].fd] = wire[client[j].fd] /\ client[j].fd # c.fd
    BY <1>2 DEF LeftBy
  <2>4. Exchanging(c, k, wire'[c.fd], peer[c.fd], call[k].executed)
    BY DEF Exchanging
  <2>5. wire' \in [Conn -> WireRecord]
    BY <1>2 DEF LeftBy
  <2>6. ClientMoves(t, i, c, k)
    BY <1>2, <2>1, <2>2, <2>3, <2>4, <2>5 DEF ClientMoves
  <2>7. \A n : Carrying(n)' \subseteq Carrying(n)
    <3>1. \A n : Carrying(n)' \subseteq Carrying(n) \cup {None}
      <4>1. \A f \in Conn : f # None => /\ wire'[f].server \in {"queued", "open"} => Live(f)
                                        /\ wire'[f].up = wire[f].up
        BY <2>1
      <4>2. c.watched /\ c.state = "WRITE_REQUEST" => c.fd = None
        OBVIOUS
      <4> QED BY <2>6, <4>1, <4>2, MovesCarry
    <3>2. \A n : Carrying(n)' \subseteq Conn
      BY DEF Carrying
    <3>3. None \notin Conn
      BY Numbers
    <3> QED BY <3>1, <3>2, <3>3
  <2> QED BY <2>6, <2>7, ClientKeeps
<1>3. CASE \E f \in Conn : /\ UnusedNumber(f, w) /\ wire' = [w EXCEPT ![f] = IF server_up THEN Pending ELSE Refused]
                           /\ client' = [client EXCEPT ![i] = Prepared([c EXCEPT !.fd = f], k)]
  <2>1. PICK f \in Conn : /\ UnusedNumber(f, w) /\ wire' = [w EXCEPT ![f] = IF server_up THEN Pending ELSE Refused]
                          /\ client' = [client EXCEPT ![i] = Prepared([c EXCEPT !.fd = f], k)]
    BY <1>3
  <2>2. PICK d, r, M, q : /\ d = Prepared([c EXCEPT !.fd = f], k) /\ r = (IF server_up THEN Pending ELSE Refused)
                          /\ M = Message(k) /\ q = NewPeer
    OBVIOUS
  <2>3. peer[f] = q /\ ~Live(f) /\ \A j \in Client : j # i => client[j].fd # f
    BY <1>0, <2>1, <2>2, Taken
  <2>4. M \in Seq(Unit) /\ Len(M) = 3 /\ M # <<>> /\ Piece(M, k, 0) /\ Size = 3
    <3>1. M \in Seq(Unit) /\ Len(M) = Size /\ Piece(M, k, 0) /\ Size = 3
      BY <1>0, <2>2, MessageIs, Numbers
    <3>2. M # <<>>
      <4> SUFFICES ASSUME M = <<>> PROVE FALSE
        OBVIOUS
      <4>1. Len(M) = 0
        BY EmptySeq
      <4> QED BY <3>1, <4>1
    <3> QED BY <3>1, <3>2
  <2>5. /\ d \in ClientRecord /\ d.in_use_ /\ d.fd = f /\ d.state = "WRITE_REQUEST" /\ d.watched = TRUE /\ d.left = M
    BY <2>2, <2>4 DEF Prepared, ClientRecord
  <2>6. /\ r \in WireRecord /\ r.up = <<>> /\ r.down = <<>> /\ r.client = TRUE /\ r.server \in {"queued", "closed"}
        /\ r.reset => r.server = "closed"
        /\ server_up => r.server = "queued"
        /\ ~server_up => r.server = "closed"
    BY <2>2, EmptySeq DEF Pending, Refused, Unconnected, WireRecord
  <2>7. wire' = [w EXCEPT ![f] = r] /\ client' = [client EXCEPT ![i] = d]
    BY <2>1, <2>2
  <2>8. /\ wire' \in [Conn -> WireRecord] /\ wire'[f] = r /\ \A g \in Conn : g # f => wire'[g] = w[g]
    BY <2>6, <2>7 DEF LeftBy
  <2>9. q.got = <<>> /\ q.left = <<>>
    BY <2>2 DEF NewPeer
  <2>10. Len(<<>>) = 0 /\ Len(r.up) = 0 /\ Len(r.down) = 0 /\ 0 <= Room /\ \A n, m : Piece(<<>>, n, m)
    BY <2>6, Numbers, EmptySeq DEF Piece
  <2>11. \A g \in Conn : g # f => /\ wire'[g].server = wire[g].server /\ wire'[g].up = wire[g].up
                                  /\ wire'[g].reset => wire'[g].server = "closed"
                                  /\ Len(wire'[g].down) <= Room /\ Len(wire'[g].up) <= Room
    BY <2>8 DEF LeftBy, XInv, RpcTypes
  <2>12. \A g \in Conn : Len(wire'[g].up) <= Room /\ Len(wire'[g].down) <= Room
    BY <2>8, <2>10, <2>11
  <2>13. Requests'
    <3>1. ASSUME NEW g \in Conn
          PROVE  /\ wire'[g].reset => wire'[g].server = "closed"
                 /\ wire'[g].server # "open" => peer[g] = NewPeer
                 /\ peer[g].left # <<>> => peer[g].got = <<>>
      BY <2>2, <2>3, <2>6, <2>8, <2>9, <2>11 DEF XInv, Requests
    <3>2. ASSUME NEW g \in Conn, wire'[g].server \in {"queued", "open"}
          PROVE  \E n \in DOMAIN call : /\ Piece(peer[g].got, n, 0) /\ Piece(wire'[g].up, n, Len(peer[g].got))
                                        /\ Len(peer[g].got) < Size /\ Len(peer[g].got) + Len(wire'[g].up) <= Size
      <4>1. CASE g # f
        <5>1. Live(g) /\ wire'[g].up = wire[g].up
          BY <2>11, <3>2, <4>1 DEF Live
        <5> QED BY <5>1 DEF XInv, Requests
      <4>2. CASE g = f
        <5>1. peer[g].got = <<>> /\ wire'[g].up = <<>>
          BY <2>3, <2>6, <2>8, <2>9, <4>2
        <5>2. 0 < Size /\ 0 + 0 <= Size
          BY Numbers
        <5> QED BY <1>0, <2>10, <5>1, <5>2
      <4> QED BY <4>1, <4>2
    <3> QED BY <3>1, <3>2 DEF Requests, Live
  <2>14. \A j \in Client : j # i /\ client[j].fd # None => wire'[client[j].fd] = wire[client[j].fd] /\ client[j].fd # d.fd
    <3> SUFFICES ASSUME NEW j \in Client, j # i, client[j].fd # None, NEW g, g = client[j].fd
                 PROVE  wire'[g] = wire[g] /\ g # d.fd
      OBVIOUS
    <3>1. g \in Conn /\ g # f
      BY <2>3 DEF XInv, RpcTypes, ClientRecord
    <3>2. w[g] = wire[g]
      BY DEF LeftBy
    <3> QED BY <2>5, <2>8, <3>1, <3>2
  <2>15. Exchanging(d, k, wire'[d.fd], peer[d.fd], call[k].executed)
    <3>1. Sending(d, k, r, q)
      <4>1. Piece(M, k, 0 + 0) /\ 0 + 0 + Len(M) = Size
        BY <2>4
      <4> QED BY <2>4, <2>5, <2>6, <2>9, <2>10, <4>1 DEF Sending
    <3> QED BY <2>3, <2>5, <2>8, <3>1 DEF Exchanging
  <2>16. ClientMoves(t, i, d, k)
    <3>1. d.fd # None => wire'[d.fd].client /\ wire'[d.fd].server # "none"
      BY <2>5, <2>6, <2>8
    <3>2. d.fd = None <=> d.state = "NO_CONNECTION"
      BY <2>5, Numbers
    <3> QED BY <2>5, <2>7, <2>8, <2>12, <2>13, <2>14, <2>15, <3>1, <3>2 DEF ClientMoves
  <2>17. \A n : /\ Carrying(n)' \subseteq Carrying(n) \cup {f}
                /\ f \in Carrying(n)' => /\ wire'[f].server \in {"queued", "open"}
                                         /\ \/ peer[f].got # <<>> /\ peer[f].got[1][1] = n
                                            \/ wire'[f].up # <<>> /\ wire'[f].up[1][1] = n
                                            \/ n = k /\ d.watched /\ d.state = "WRITE_REQUEST"
    <3>1. \A g \in Conn : g # f => /\ wire'[g].server \in {"queued", "open"} => Live(g)
                                   /\ wire'[g].up = wire[g].up
      BY <2>11 DEF Live
    <3>2. d.watched /\ d.state = "WRITE_REQUEST" => d.fd = f
      BY <2>5
    <3> QED BY <2>16, <3>1, <3>2, MovesCarry
  <2>18. \A n : f \in Carrying(n)' => n = k /\ wire'[f].server \in {"queued", "open"}
    BY <2>3, <2>6, <2>8, <2>9, <2>17
  <2>19. CASE server_up
    <3>1. \A n : Carrying(n)' \subseteq IF n = k THEN Carrying(n) \cup {f} ELSE Carrying(n)
      BY <2>17, <2>18
    <3>2. ~BrokenOff(t)'
      <4>1. client'[i] = d /\ wire'[d.fd].server = "queued"
        BY <1>0, <2>5, <2>6, <2>7, <2>8, <2>19 DEF XInv, RpcTypes
      <4> QED BY <1>1, <2>5, <4>1 DEF BrokenOff, ThreadAt
    <3> QED BY <2>16, <3>1, <3>2, ClientSends
  <2>20. CASE ~server_up
    <3>1. \A n : Carrying(n)' \subseteq Carrying(n)
      BY <2>6, <2>8, <2>17, <2>18, <2>20
    <3> QED BY <2>16, <3>1, ClientKeeps
  <2> QED BY <2>19, <2>20
<1>4. ASSUME NEW free, free = {f \in Conn : UnusedNumber(f, w)}, free # {} PROVE (CHOOSE f \in free : \A g \in free : f <= g) \in free
  <2>1. free \subseteq Nat /\ free # {}
    BY <1>4, Numbers
  <2>3. \E f \in free : \A g \in free : f <= g
    BY <2>1, LeastNatural
  <2> QED BY <2>3
<1> QED BY <1>2, <1>3, <1>4 DEF Connect

LEMMA LeftRequests ==
    ASSUME XInv, NEW i, LeftBy(wire', i), peer' = peer, call' = call
    PROVE  /\ Requests' /\ \A f \in Conn : Len(wire'[f].up) <= Room /\ Len(wire'[f].down) <= Room
           /\ \A f \in Conn : (wire'[f].server \in {"queued", "open"} => Live(f)) /\ wire'[f].up = wire[f].up
<1>1. ASSUME NEW f \in Conn
      PROVE  /\ Len(wire'[f].up) <= Room /\ Len(wire'[f].down) <= Room
             /\ wire'[f].reset => wire'[f].server = "closed"
             /\ wire'[f].server # "open" => peer[f] = NewPeer
             /\ peer[f].left # <<>> => peer[f].got = <<>>
             /\ wire'[f].server \in {"queued", "open"} => Live(f)
             /\ wire'[f].up = wire[f].up
  BY DEF LeftBy, XInv, RpcTypes, Requests, Live
<1>2. ASSUME NEW f \in Conn, wire'[f].server \in {"queued", "open"}
      PROVE  \E n \in DOMAIN call : /\ Piece(peer[f].got, n, 0) /\ Piece(wire'[f].up, n, Len(peer[f].got))
                                    /\ Len(peer[f].got) < Size /\ Len(peer[f].got) + Len(wire'[f].up) <= Size
  <2>1. Live(f) /\ wire'[f].up = wire[f].up
    BY <1>1, <1>2
  <2> QED BY <2>1 DEF XInv, Requests
<1>3. Requests'
  BY <1>1, <1>2 DEF Requests, Live
<1> QED BY <1>1, <1>3

\* Thread t works, with its client.
Working(t, i, k) ==
    /\ t \in Caller /\ thread[t].at = "work" /\ call_mutex = t /\ i = thread[t].client /\ k = thread[t].call
    /\ client[i].watched /\ client[i].fd \in Conn /\ wire[client[i].fd].client = TRUE
    /\ i \in Client /\ k \in DOMAIN call /\ k \in Nat /\ client[i] \in ClientRecord /\ client[i].in_use_
    /\ thread = [thread EXCEPT ![t].at = "work"] /\ thread[t] \in ThreadRecord
    /\ UNCHANGED <<thread, call, clients_, call_mutex, rpc_shutting_down_, peer>>

LEMMA WorkMoves ==
    ASSUME XInv, NEW t, NEW i, NEW k, Working(t, i, k), NEW d \in ClientRecord, d.in_use_,
           client' = [client EXCEPT ![i] = d], d.fd = client[i].fd, LeftBy(wire', i), wire'[d.fd].client = TRUE,
           d.state \in {"WRITE_REQUEST", "READ", "IDLE"},
           d.watched => d.state \in {"WRITE_REQUEST", "READ"},
           d.state = "IDLE" =>
              /\ wire'[d.fd].server \in {"open", "closed"} /\ wire'[d.fd].down = <<>>
              /\ wire'[d.fd].server \in {"queued", "open"} => wire'[d.fd].up = <<>> /\ peer[d.fd] = NewPeer,
           Exchanging(d, k, wire'[d.fd], peer[d.fd], call[k].executed)
    PROVE  ClientMoves(t, i, d, k)
<1>1. Requests' /\ \A f \in Conn : Len(wire'[f].up) <= Room /\ Len(wire'[f].down) <= Room
  <2>1. peer' = peer /\ call' = call
    BY DEF Working
  <2> QED BY <2>1, LeftRequests
<1>2. \A j \in Client : j # i /\ client[j].fd # None => wire'[client[j].fd] = wire[client[j].fd] /\ client[j].fd # d.fd
  <2> SUFFICES ASSUME NEW j \in Client, j # i, client[j].fd # None
               PROVE  wire'[client[j].fd] = wire[client[j].fd] /\ client[j].fd # d.fd
    OBVIOUS
  <2>1. i \in Client /\ client[i].fd # client[j].fd
    BY DEF XInv, ClientsOK, Working
  <2>2. wire'[client[j].fd] = wire[client[j].fd]
    BY DEF LeftBy
  <2> QED BY <2>1, <2>2
<1>3. d.fd # None /\ wire'[d.fd].server # "none" /\ wire' \in [Conn -> WireRecord]
  <2>1. PICK f : f = d.fd
    OBVIOUS
  <2>2. f \in Conn /\ i \in Client /\ client[i].fd = f
    BY <2>1 DEF Working
  <2>3. f # None
    BY <2>2, Numbers
  <2>4. wire[f].server # "none"
    BY <2>2, <2>3 DEF XInv, ClientsOK
  <2>5. wire'[f].server = wire[f].server /\ wire' \in [Conn -> WireRecord]
    BY <2>2 DEF LeftBy
  <2> QED BY <2>1, <2>3, <2>4, <2>5
<1>4. /\ t \in Caller /\ i = thread[t].client /\ k = thread[t].call /\ thread[t].at \in {"call", "work"}
      /\ thread' = [thread EXCEPT ![t].at = "work"] /\ call_mutex \in {None, t} /\ call_mutex' = t
      /\ UNCHANGED <<call, clients_, rpc_shutting_down_, peer>>
  BY DEF Working
<1> QED BY <1>1, <1>2, <1>3, <1>4 DEF ClientMoves

\* What the client has received or given up: nothing more is carried.
LEMMA WorkKeeps ==
    ASSUME XInv, NEW t, NEW i, NEW k, Working(t, i, k), NEW d, ClientMoves(t, i, d, k), LeftBy(wire', i),
           ~(d.watched /\ d.state = "WRITE_REQUEST"), BrokenOff(t)' => BrokenOff(t)
    PROVE  XInv'
<1>1. \A f \in Conn : f # None => /\ wire'[f].server \in {"queued", "open"} => Live(f)
                                  /\ wire'[f].up = wire[f].up
  <2>1. peer' = peer /\ call' = call
    BY DEF Working
  <2> QED BY <2>1, LeftRequests
<1>2. \A n : Carrying(n)' \subseteq Carrying(n) \cup {None}
  <2>1. d.watched /\ d.state = "WRITE_REQUEST" => d.fd = None
    OBVIOUS
  <2> QED BY <1>1, <2>1, MovesCarry
<1>3. \A n : Carrying(n)' \subseteq Carrying(n)
  <2>1. \A n : Carrying(n)' \subseteq Conn
    BY DEF Carrying
  <2>2. None \notin Conn
    BY Numbers
  <2> QED BY <1>2, <2>1, <2>2
<1> QED BY <1>3, ClientKeeps

\* A call is broken off where the connection has ended.
LEMMA StopsInv ==
    ASSUME XInv, NEW t, NEW i, NEW k, Working(t, i, k), NEW d \in ClientRecord, d.in_use_,
           client' = [client EXCEPT ![i] = d], d.fd = client[i].fd, LeftBy(wire', i), wire'[d.fd].client = TRUE,
           d.state \in {"WRITE_REQUEST", "READ"}, d.watched = FALSE, wire[d.fd].server = "closed"
    PROVE  XInv'
<1>1. Exchanging(d, k, wire'[d.fd], peer[d.fd], call[k].executed)
  BY DEF Exchanging
<1>2. ClientMoves(t, i, d, k)
  BY <1>1, WorkMoves
<1>3. BrokenOff(t)
  BY DEF Working, BrokenOff, ThreadAt
<1>4. ~(d.watched /\ d.state = "WRITE_REQUEST")
  OBVIOUS
<1> QED BY <1>2, <1>3, <1>4, WorkKeeps

\* readHeader() and readResponse() at the end of a connection.
LEMMA ReadEnded ==
    ASSUME XInv, NEW t, NEW i, NEW k, Working(t, i, k), NEW c \in ClientRecord, c.in_use_, c.fd = client[i].fd,
           c.state = "READ", NEW w, LeftBy(w, i), w[c.fd].client = TRUE, w[c.fd].server = "closed",
           w[c.fd].reset \/ Len(c.got \o w[c.fd].down) < Size,
           Read(i, c, k, w)
    PROVE  XInv'
<1>1. PICK f, s, got, taken : f = c.fd /\ s = w[f] /\ got = c.got \o s.down /\ taken = [w EXCEPT ![f].down = <<>>]
  OBVIOUS
<1>2. /\ f \in Conn /\ s \in WireRecord /\ s.server = "closed" /\ s.client = TRUE /\ got \in Seq(Unit)
      /\ f = client[i].fd /\ wire[f].server = "closed"
  <2>1. f \in Conn /\ s \in WireRecord /\ s.server = "closed" /\ s.client = TRUE /\ f = client[i].fd
    BY <1>1 DEF Working, LeftBy
  <2>2. got \in Seq(Unit)
    BY <1>1, <2>1, ConcatProperties DEF ClientRecord, WireRecord
  <2> QED BY <1>1, <2>1, <2>2 DEF LeftBy
<1>3. PICK r : r = [s EXCEPT !.down = <<>>]
  OBVIOUS
<1>4. /\ r \in WireRecord /\ r.down = <<>> /\ r.up = s.up /\ r.client = TRUE /\ r.server = "closed" /\ r.reset = s.reset
  BY <1>2, <1>3, EmptySeq DEF WireRecord
<1>5. taken = [w EXCEPT ![f] = r] /\ taken \in [Conn -> WireRecord] /\ taken[f] = r /\ \A g \in Conn : g # f => taken[g] = w[g]
  BY <1>1, <1>2, <1>3, <1>4 DEF LeftBy
<1>6. 0 <= Room /\ Len(<<>>) = 0
  BY Numbers, EmptySeq
<1>7. \A j \in Client : j # i /\ client[j].fd # None => client[j].fd # f /\ client[j].fd \in Conn
  <2>1. \A j \in Client : client[j].fd \in Conn \cup {None}
    BY DEF XInv, RpcTypes, ClientRecord
  <2>2. \A j \in Client : j # i /\ client[j].fd # None => client[j].fd # f
    BY <1>2 DEF XInv, ClientsOK, Working
  <2> QED BY <2>1, <2>2
<1>8. LeftBy(taken, i)
  <2>1. \A g \in Conn : /\ taken[g].server = wire[g].server /\ taken[g].up = wire[g].up
                        /\ taken[g].reset => taken[g].server = "closed"
                        /\ Len(taken[g].down) <= Room
    <3>1. \A g \in Conn : /\ w[g].server = wire[g].server /\ w[g].up = wire[g].up
                          /\ w[g].reset => w[g].server = "closed"
                          /\ Len(w[g].down) <= Room
      BY DEF LeftBy
    <3>2. \A g \in Conn : g # f => taken[g] = w[g]
      BY <1>5
    <3>3. /\ taken[f].server = wire[f].server /\ taken[f].up = wire[f].up
          /\ taken[f].reset => taken[f].server = "closed"
          /\ Len(taken[f].down) <= Room
      BY <1>1, <1>2, <1>4, <1>5, <1>6, <3>1
    <3> QED BY <3>1, <3>2, <3>3
  <2>2. \A j \in Client : j # i /\ client[j].fd # None => taken[client[j].fd] = wire[client[j].fd]
    BY <1>5, <1>7 DEF LeftBy
  <2> QED BY <1>5, <2>1, <2>2 DEF LeftBy
<1>9. CASE got = <<>> /\ c.attempts = 0
  <2>1. PICK z, v : z = Closed([c EXCEPT !.attempts = @ + 1]) /\ v = Close(taken, f)
    OBVIOUS
  <2>2. Connect(i, z, k, v)
    <3>1. got = <<>> /\ (s.reset \/ (s.server = "closed" /\ ~s.reset /\ Len(got) < Size)) /\ c.attempts = 0
      BY <1>1, <1>2, <1>9
    <3> QED BY <1>1, <2>1, <3>1 DEF Read
  <2>3. z \in ClientRecord /\ z.in_use_ /\ z.fd = None /\ z.state = "NO_CONNECTION" /\ z.watched = FALSE
    <3>1. PICK b : b = [c EXCEPT !.attempts = @ + 1]
      OBVIOUS
    <3>2. b \in ClientRecord /\ b.in_use_
      BY <3>1 DEF ClientRecord
    <3>3. z = Closed(b)
      BY <2>1, <3>1
    <3> QED BY <3>2, <3>3 DEF Closed, ClientRecord
  <2>4. f # None
    BY <1>2, Numbers
  <2>5. PICK e : e = [r EXCEPT !.client = FALSE]
    OBVIOUS
  <2>6. /\ e \in WireRecord /\ e.down = <<>> /\ e.up = r.up /\ e.server = "closed" /\ e.reset = r.reset
        /\ e = [r EXCEPT !.client = FALSE, !.down = <<>>]
    BY <1>4, <2>5 DEF WireRecord
  <2>7. v = [taken EXCEPT ![f] = e] /\ v \in [Conn -> WireRecord] /\ v[f] = e /\ \A g \in Conn : g # f => v[g] = taken[g]
    BY <1>2, <1>5, <2>1, <2>4, <2>6 DEF Close
  <2>8. LeftBy(v, i)
    <3>1. \A g \in Conn : /\ v[g].server = wire[g].server /\ v[g].up = wire[g].up
                          /\ v[g].reset => v[g].server = "closed"
                          /\ Len(v[g].down) <= Room
      BY <1>2, <1>4, <1>5, <1>6, <1>8, <2>6, <2>7 DEF LeftBy
    <3>2. \A j \in Client : j # i /\ client[j].fd # None => v[client[j].fd] = wire[client[j].fd]
      BY <1>7, <1>8, <2>7 DEF LeftBy
    <3> QED BY <2>7, <3>1, <3>2 DEF LeftBy
  <2>9. BrokenOff(t)
    BY <1>2 DEF Working, BrokenOff, ThreadAt
  <2>10. /\ t \in Caller /\ i = thread[t].client /\ k = thread[t].call /\ thread[t].at \in {"call", "work"}
         /\ thread' = [thread EXCEPT ![t].at = "work"] /\ call_mutex \in {None, t} /\ call_mutex' = t
         /\ UNCHANGED <<call, clients_, rpc_shutting_down_, peer>>
    BY DEF Working
  <2> QED BY <2>2, <2>3, <2>8, <2>9, <2>10, ConnectInv
<1>10. CASE ~(got = <<>> /\ c.attempts = 0)
  <2>1. PICK d, eof : d = [c EXCEPT !.got = got, !.eof = eof, !.watched = FALSE] /\ eof = (s.server = "closed" /\ ~s.reset)
    OBVIOUS
  <2>2. client' = [client EXCEPT ![i] = d] /\ wire' = taken
    <3>1. /\ s.reset \/ (s.server = "closed" /\ ~s.reset /\ Len(got) < Size)
          /\ got # <<>> \/ c.attempts # 0
      BY <1>1, <1>2, <1>10
    <3> QED BY <1>1, <2>1, <3>1 DEF Read
  <2>3. d \in ClientRecord /\ d.in_use_ /\ d.fd = f /\ d.state = "READ" /\ d.watched = FALSE
    BY <1>1, <1>2, <2>1 DEF ClientRecord
  <2>4. wire'[d.fd].client = TRUE /\ LeftBy(wire', i)
    BY <1>4, <1>5, <1>8, <2>2, <2>3
  <2> QED BY <1>2, <2>2, <2>3, <2>4, StopsInv
<1> QED BY <1>9, <1>10

\* What is read of a response while the connection is there, or when all of it is.
LEMMA ReadGoesOn ==
    ASSUME XInv, NEW t, NEW i, NEW k, Working(t, i, k), NEW c, c = client[i], c.state = "READ",
           ~wire[c.fd].reset, wire[c.fd].server # "closed" \/ ~(Len(c.got \o wire[c.fd].down) < Size),
           Read(i, c, k, wire)
    PROVE  XInv'
<1>0. t \in Caller /\ k \in Nat /\ c \in ClientRecord /\ c.in_use_ /\ c.watched /\ c.fd \in Conn /\ i \in Client
  BY DEF Working
<1>1. PICK f, s, p, x : f = c.fd /\ s = wire[f] /\ p = peer[f] /\ x = call[k].executed
  OBVIOUS
<1>2. PICK cg, e, got, taken : cg = c.got /\ e = s.down /\ got = cg \o e /\ taken = [wire EXCEPT ![f].down = <<>>]
  OBVIOUS
<1>3. /\ f \in Conn /\ s \in WireRecord /\ s.client = TRUE /\ p \in PeerRecord /\ s.server # "none" /\ s.reset = FALSE
      /\ cg \in Seq(Unit) /\ e \in Seq(Unit) /\ f # None
  <2>1. f \in Conn /\ s.client = TRUE /\ f # None
    BY <1>1, Numbers DEF Working
  <2>2. s \in WireRecord /\ p \in PeerRecord
    BY <1>1, <2>1 DEF XInv, RpcTypes
  <2>3. s.server # "none"
    BY <1>0, <1>1, <2>1 DEF XInv, ClientsOK
  <2>4. cg \in Seq(Unit) /\ e \in Seq(Unit)
    BY <1>0, <1>2, <2>2 DEF ClientRecord, WireRecord
  <2>5. s.reset = FALSE
    BY <1>1, <2>2 DEF WireRecord
  <2> QED BY <2>1, <2>2, <2>3, <2>4, <2>5
<1>4. Len(cg) \in Nat /\ Len(e) \in Nat /\ got \in Seq(Unit) /\ Len(got) = Len(cg) + Len(e) /\ Len(got) \in Nat
  <2>1. Len(cg) \in Nat /\ Len(e) \in Nat /\ got \in Seq(Unit) /\ Len(got) = Len(cg) + Len(e)
    BY <1>2, <1>3, Joined
  <2> QED BY <2>1
<1>5. Awaiting(c, k, s, p, x)
  <2>1. Exchanging(c, k, s, p, x)
    BY <1>1 DEF Working, XInv, Exchange, ThreadAt
  <2> QED BY <1>0, <2>1 DEF Exchanging
<1>6. /\ Piece(cg, k, 0) /\ Piece(e, k, Len(cg)) /\ Len(cg) + Len(e) <= Size
      /\ cg # <<>> \/ e # <<>> => x >= 1
  BY <1>2, <1>5 DEF Awaiting
<1>7. Piece(got, k, 0)
  <2>1. Piece(e, k, 0 + Len(cg))
    BY <1>4, <1>6
  <2>2. PICK z \in Nat : z = 0
    OBVIOUS
  <2>3. Piece(cg, k, z) /\ Piece(e, k, z + Len(cg))
    BY <1>6, <2>1, <2>2
  <2>4. Piece(cg \o e, k, z)
    BY <1>0, <1>3, <2>3, PieceJoin
  <2> QED BY <1>2, <2>2, <2>4
<1>8. PICK r : r = [s EXCEPT !.down = <<>>]
  OBVIOUS
<1>9. /\ r \in WireRecord /\ r.down = <<>> /\ r.up = s.up /\ r.client = TRUE /\ r.server = s.server /\ r.reset = FALSE
  BY <1>3, <1>8, EmptySeq DEF WireRecord
<1>10. taken = [wire EXCEPT ![f] = r] /\ taken \in [Conn -> WireRecord] /\ taken[f] = r /\ \A g \in Conn : g # f => taken[g] = wire[g]
  BY <1>1, <1>2, <1>3, <1>8, <1>9 DEF XInv, RpcTypes
<1>11. LeftBy(taken, i)
  <2>1. 0 <= Room /\ Len(<<>>) = 0
    BY Numbers, EmptySeq
  <2>2. \A g \in Conn : /\ wire[g].reset => wire[g].server = "closed"
                        /\ Len(wire[g].down) <= Room
    BY DEF XInv, RpcTypes, Requests
  <2>3. \A g \in Conn : /\ taken[g].server = wire[g].server /\ taken[g].up = wire[g].up
                        /\ taken[g].reset => taken[g].server = "closed"
                        /\ Len(taken[g].down) <= Room
    BY <1>1, <1>9, <1>10, <2>1, <2>2
  <2>4. \A j \in Client : j # i /\ client[j].fd # None => client[j].fd # f /\ client[j].fd \in Conn
    <3>1. \A j \in Client : client[j].fd \in Conn \cup {None}
      BY DEF XInv, RpcTypes, ClientRecord
    <3>2. \A j \in Client : j # i /\ client[j].fd # None => client[j].fd # f
      BY <1>0, <1>1 DEF XInv, ClientsOK
    <3> QED BY <3>1, <3>2
  <2>5. \A j \in Client : j # i /\ client[j].fd # None => taken[client[j].fd] = wire[client[j].fd]
    BY <1>10, <2>4
  <2> QED BY <1>10, <2>3, <2>5 DEF LeftBy
<1>12. PICK eof, ended : eof = (s.server = "closed" /\ ~s.reset) /\ ended = (s.reset \/ (eof /\ Len(got) < Size)) /\ ended = FALSE
  <2>1. ~(s.reset \/ ((s.server = "closed" /\ ~s.reset) /\ Len(got) < Size))
    BY <1>1, <1>2, <1>3
  <2> QED BY <2>1
<1>13. CASE Len(got) >= Size
  <2>1. PICK d : d = [c EXCEPT !.got = got, !.eof = eof, !.state = "IDLE", !.watched = FALSE]
    OBVIOUS
  <2>2. client' = [client EXCEPT ![i] = d] /\ wire' = taken
    <3>1. ~(s.reset \/ ((s.server = "closed" /\ ~s.reset) /\ Len(got) < Size))
      BY <1>12
    <3> QED BY <1>1, <1>2, <1>12, <1>13, <2>1, <3>1 DEF Read
  <2>3. d \in ClientRecord /\ d.in_use_ /\ d.fd = f /\ d.state = "IDLE" /\ d.watched = FALSE /\ d.got = got
    BY <1>0, <1>1, <1>4, <1>12, <2>1 DEF ClientRecord
  <2>4. Len(got) = 3 /\ Size = 3
    BY <1>4, <1>6, <1>13, Numbers
  <2>5. cg # <<>> \/ e # <<>>
    <3> SUFFICES ASSUME cg = <<>>, e = <<>> PROVE FALSE
      OBVIOUS
    <3>1. Len(cg) = 0 /\ Len(e) = 0
      BY EmptySeq
    <3>2. Len(got) = 0
      BY <1>4, <3>1
    <3> QED BY <2>4, <3>2
  <2>6. Received(d, k, x)
    BY <1>6, <1>7, <2>3, <2>4, <2>5 DEF Received
  <2>7. s.server \in {"queued", "open"} => s.server = "open" /\ s.up = <<>> /\ p = NewPeer
    <3> SUFFICES ASSUME s.server \in {"queued", "open"} PROVE s.server = "open" /\ s.up = <<>> /\ p = NewPeer
      OBVIOUS
    <3>1. ~Requested(c, k, s, p)
      BY <1>2, <2>5 DEF Requested
    <3>2. Answering(c, k, s, p, x)
      BY <1>5, <3>1 DEF Awaiting
    <3>3. PICK l : l = p.left
      OBVIOUS
    <3>4. l \in Seq(Unit) /\ Len(cg) + Len(e) + Len(l) = Size
      BY <1>2, <1>3, <3>2, <3>3 DEF Answering, PeerRecord
    <3>5. Len(l) \in Nat
      BY <3>4, LenProperties
    <3>6. Len(l) = 0
      <4>1. PICK a, b, m : a = Len(cg) /\ b = Len(e) /\ m = Len(l)
        OBVIOUS
      <4>2. a \in Nat /\ b \in Nat /\ m \in Nat /\ a + b + m = 3
        BY <1>4, <2>4, <3>4, <3>5, <4>1
      <4>3. a + b = 3
        BY <1>4, <2>4, <4>1
      <4>4. m = 0
        BY <4>2, <4>3
      <4> QED BY <4>1, <4>4
    <3>7. l = <<>>
      BY <3>4, <3>6, EmptySeq
    <3>8. p.got = <<>> /\ s.up = <<>> /\ s.server = "open"
      BY <3>2 DEF Answering
    <3> QED BY <1>3, <3>3, <3>7, <3>8 DEF PeerRecord, NewPeer
  <2>8. wire'[d.fd] = r /\ peer[d.fd] = p /\ LeftBy(wire', i)
    BY <1>1, <1>10, <1>11, <2>2, <2>3
  <2>9. /\ r.server \in {"open", "closed"} /\ r.down = <<>>
        /\ r.server \in {"queued", "open"} => r.up = <<>> /\ p = NewPeer
    BY <1>3, <1>9, <2>7 DEF WireRecord
  <2>10. Exchanging(d, k, r, p, x)
    BY <2>3, <2>6 DEF Exchanging
  <2>11. ClientMoves(t, i, d, k)
    BY <1>1, <1>9, <2>2, <2>3, <2>8, <2>9, <2>10, WorkMoves
  <2>12. ~BrokenOff(t)'
    <3>1. thread'[t].at = "work" /\ client'[thread'[t].client] = d
      BY <2>11, OthersWait DEF ThreadAt
    <3> QED BY <2>3, <3>1 DEF BrokenOff, ThreadAt
  <2> QED BY <2>3, <2>8, <2>11, <2>12, WorkKeeps
<1>14. CASE ~(Len(got) >= Size)
  <2>1. PICK d : d = [c EXCEPT !.got = got]
    OBVIOUS
  <2>2. client' = [client EXCEPT ![i] = d] /\ wire' = taken
    <3>1. ~(s.reset \/ ((s.server = "closed" /\ ~s.reset) /\ Len(got) < Size))
      BY <1>12
    <3> QED BY <1>1, <1>2, <1>14, <2>1, <3>1 DEF Read
  <2>3. d \in ClientRecord /\ d.in_use_ /\ d.fd = f /\ d.state = "READ" /\ d.watched /\ d.got = got
    BY <1>0, <1>1, <1>4, <2>1 DEF ClientRecord
  <2>4. s.server \in {"queued", "open"} /\ s.server # "closed"
    <3>1. Len(got) < Size
      BY <1>4, <1>14, Numbers
    <3> QED BY <1>1, <1>2, <1>3, <3>1 DEF WireRecord
  <2>5. wire'[d.fd] = r /\ peer[d.fd] = p /\ LeftBy(wire', i)
    BY <1>1, <1>10, <1>11, <2>2, <2>3
  <2>6. Awaiting(d, k, r, p, x)
    <3>1. got # <<>> => cg # <<>> \/ e # <<>>
      <4>1. got # <<>> => Len(got) # 0
        BY <1>4, EmptySeq
      <4>2. cg = <<>> /\ e = <<>> => Len(got) = 0
        BY <1>4, EmptySeq
      <4> QED BY <4>1, <4>2
    <3>2. PICK b : b = <<>>
      OBVIOUS
    <3>3. Len(b) = 0 /\ Len(got) + Len(b) = Len(got) /\ Len(got) + Len(b) <= Size /\ Piece(b, k, Len(got))
      <4>1. Len(b) = 0 /\ Piece(b, k, Len(got))
        BY <3>2, EmptySeq DEF Piece
      <4> QED BY <1>4, <1>6, <4>1, Numbers
    <3>4. Requested(c, k, s, p) => Requested(d, k, r, p)
      <4> SUFFICES ASSUME Requested(c, k, s, p) PROVE Requested(d, k, r, p)
        OBVIOUS
      <4>1. cg = <<>> /\ e = <<>>
        BY <1>2 DEF Requested
      <4>2. got = <<>>
        BY <1>2, <3>1, <4>1
      <4> QED BY <1>9, <2>3, <4>2 DEF Requested
    <3>5. Answering(c, k, s, p, x) => Answering(d, k, r, p, x)
      <4> SUFFICES ASSUME Answering(c, k, s, p, x) PROVE Answering(d, k, r, p, x)
        OBVIOUS
      <4>1. PICK l : l = p.left
        OBVIOUS
      <4>2. /\ s.server = "open" /\ p.got = <<>> /\ s.up = <<>> /\ Piece(l, k, Len(cg) + Len(e))
            /\ Len(cg) + Len(e) + Len(l) = Size /\ x >= 1
        BY <1>2, <4>1 DEF Answering
      <4>3. Piece(l, k, Len(got) + Len(b)) /\ Len(got) + Len(b) + Len(l) = Size
        BY <1>4, <3>3, <4>2
      <4> QED BY <1>9, <2>3, <3>2, <4>1, <4>2, <4>3 DEF Answering
    <3>6. Requested(d, k, r, p) \/ Answering(d, k, r, p, x)
      BY <1>5, <2>4, <3>4, <3>5 DEF Awaiting
    <3> QED BY <1>6, <1>7, <1>9, <2>3, <3>1, <3>2, <3>3, <3>6 DEF Awaiting
  <2>7. Exchanging(d, k, r, p, x)
    BY <2>3, <2>6 DEF Exchanging
  <2>8. ClientMoves(t, i, d, k)
    BY <1>1, <1>9, <2>2, <2>3, <2>5, <2>7, WorkMoves
  <2>9. ~BrokenOff(t)'
    <3>1. thread'[t].at = "work" /\ client'[thread'[t].client] = d
      BY <2>8, OthersWait DEF ThreadAt
    <3>2. wire'[d.fd].server # "closed"
      BY <1>9, <2>4, <2>5
    <3> QED BY <2>3, <3>1, <3>2 DEF BrokenOff, ThreadAt
  <2> QED BY <2>3, <2>5, <2>8, <2>9, WorkKeeps
<1> QED BY <1>13, <1>14

LEMMA LeftAlone ==
    ASSUME XInv, NEW i
    PROVE  LeftBy(wire, i)
BY DEF LeftBy, XInv, RpcTypes, Requests

\* writeRequest() where the server has closed: what is written resets the connection.
LEMMA WriteLost ==
    ASSUME XInv, NEW t, NEW i, NEW k, Working(t, i, k), NEW c, c = client[i], c.state = "WRITE_REQUEST",
           wire[c.fd].server = "closed", WriteRequest(i, k)
    PROVE  XInv'
<1>0. /\ t \in Caller /\ k \in Nat /\ c \in ClientRecord /\ c.in_use_ /\ c.watched /\ c.fd \in Conn /\ i \in Client
      /\ wire[c.fd].client = TRUE
  BY DEF Working
<1>1. PICK f, s, left, rest : f = c.fd /\ s = wire[f] /\ left = c.left /\ rest = SubSeq(left, Len(left) + 1, Len(left))
  OBVIOUS
<1>2. /\ f \in Conn /\ s \in WireRecord /\ s.server = "closed" /\ s.client = TRUE /\ f # None
  BY <1>0, <1>1, Numbers DEF XInv, RpcTypes
<1>3. rest = <<>>
  <2>1. left \in Seq(Unit) /\ Len(left) \in Nat
    BY <1>0, <1>1, LenProperties DEF ClientRecord
  <2>2. rest \in Seq(Unit) /\ Len(rest) = 0
    BY <1>1, <2>1, SubSeqProperties
  <2> QED BY <2>2, EmptySeq
<1>4. PICK next, after : /\ next = [c EXCEPT !.left = rest, !.got = <<>>, !.state = "READ"]
                        /\ after = [wire EXCEPT ![f].reset = TRUE, ![f].down = <<>>]
  OBVIOUS
<1>5. next \in ClientRecord /\ next.in_use_ /\ next.fd = f /\ next.state = "READ"
  BY <1>0, <1>1, <1>3, <1>4, EmptySeq DEF ClientRecord
<1>6. PICK r : r = [s EXCEPT !.reset = TRUE, !.down = <<>>]
  OBVIOUS
<1>7. /\ r \in WireRecord /\ r.reset = TRUE /\ r.down = <<>> /\ r.up = s.up /\ r.client = TRUE /\ r.server = "closed"
  BY <1>2, <1>6, EmptySeq DEF WireRecord
<1>8. after = [wire EXCEPT ![f] = r] /\ after \in [Conn -> WireRecord] /\ after[f] = r /\ \A g \in Conn : g # f => after[g] = wire[g]
  BY <1>1, <1>2, <1>4, <1>6, <1>7 DEF XInv, RpcTypes
<1>9. LeftBy(after, i)
  <2>1. 0 <= Room /\ Len(<<>>) = 0
    BY Numbers, EmptySeq
  <2>2. \A g \in Conn : /\ wire[g].reset => wire[g].server = "closed"
                        /\ Len(wire[g].down) <= Room
    BY DEF XInv, RpcTypes, Requests
  <2>3. \A g \in Conn : /\ after[g].server = wire[g].server /\ after[g].up = wire[g].up
                        /\ after[g].reset => after[g].server = "closed"
                        /\ Len(after[g].down) <= Room
    BY <1>1, <1>2, <1>7, <1>8, <2>1, <2>2
  <2>4. \A j \in Client : j # i /\ client[j].fd # None => client[j].fd # f /\ client[j].fd \in Conn
    <3>1. \A j \in Client : client[j].fd \in Conn \cup {None}
      BY DEF XInv, RpcTypes, ClientRecord
    <3>2. \A j \in Client : j # i /\ client[j].fd # None => client[j].fd # f
      BY <1>0, <1>1 DEF XInv, ClientsOK
    <3> QED BY <3>1, <3>2
  <2>5. \A j \in Client : j # i /\ client[j].fd # None => after[client[j].fd] = wire[client[j].fd]
    BY <1>8, <2>4
  <2> QED BY <1>8, <2>3, <2>5 DEF LeftBy
<1>10. \/ client' = [client EXCEPT ![i] = [c EXCEPT !.watched = FALSE]] /\ wire' = wire
       \/ Read(i, next, k, after)
  BY <1>1, <1>3, <1>4 DEF WriteRequest
<1>11. CASE client' = [client EXCEPT ![i] = [c EXCEPT !.watched = FALSE]] /\ wire' = wire
  <2>1. PICK d : d = [c EXCEPT !.watched = FALSE]
    OBVIOUS
  <2>2. d \in ClientRecord /\ d.in_use_ /\ d.fd = f /\ d.state = "WRITE_REQUEST" /\ d.watched = FALSE
    BY <1>0, <1>1, <2>1 DEF ClientRecord
  <2>3. LeftBy(wire', i) /\ wire'[d.fd].client = TRUE /\ client' = [client EXCEPT ![i] = d]
    BY <1>1, <1>2, <1>11, <2>1, <2>2, LeftAlone
  <2> QED BY <1>1, <1>2, <2>2, <2>3, StopsInv
<1>12. CASE Read(i, next, k, after)
  <2>1. after[next.fd].client = TRUE /\ after[next.fd].server = "closed" /\ after[next.fd].reset /\ next.fd = client[i].fd
    BY <1>1, <1>5, <1>7, <1>8
  <2> QED BY <1>5, <1>9, <1>12, <2>1, ReadEnded
<1> QED BY <1>10, <1>11, <1>12

\* The same for what goes on from u, which begins at a.
Written(u, left, k, a, n, rest, v) ==
    /\ u \in Seq(Unit) /\ Len(u) <= Room /\ left \in Seq(Unit) /\ k \in Nat /\ a \in Nat
    /\ Piece(u, k, a) /\ Piece(left, k, a + Len(u)) /\ n = Smaller(Room - Len(u), Len(left))
    /\ rest = SubSeq(left, n + 1, Len(left)) /\ v = u \o SubSeq(left, 1, n)

LEMMA WritesOn ==
    ASSUME NEW u, NEW left, NEW k, NEW a, NEW n, NEW rest, NEW v, Written(u, left, k, a, n, rest, v)
    PROVE  /\ n \in 0 .. Len(left) /\ v \in Seq(Unit) /\ Len(v) = Len(u) + n /\ Len(v) <= Room
           /\ rest \in Seq(Unit) /\ Len(rest) = Len(left) - n /\ Piece(rest, k, (a + Len(u)) + n) /\ Piece(v, k, a)
<1>0. /\ u \in Seq(Unit) /\ Len(u) <= Room /\ left \in Seq(Unit) /\ k \in Nat /\ a \in Nat
      /\ Piece(u, k, a) /\ Piece(left, k, a + Len(u)) /\ n = Smaller(Room - Len(u), Len(left))
      /\ rest = SubSeq(left, n + 1, Len(left)) /\ v = u \o SubSeq(left, 1, n)
  BY DEF Written
<1>1. Len(u) \in Nat /\ Len(left) \in Nat /\ n \in 0 .. Len(left) /\ Len(u) + n <= Room
  BY <1>0, LenProperties, Numbers DEF Smaller
<1>2. PICK b \in Nat : b = a + Len(u)
  BY <1>0, <1>1
<1>3. Piece(left, k, b)
  BY <1>0, <1>2
<1>4. PICK head : head = SubSeq(left, 1, n)
  OBVIOUS
<1>5. /\ head \in Seq(Unit) /\ Len(head) = n /\ Piece(head, k, b)
      /\ rest \in Seq(Unit) /\ Len(rest) = Len(left) - n /\ Piece(rest, k, b + n)
  BY <1>0, <1>1, <1>3, <1>4, PieceCut
<1>6. v = u \o head
  BY <1>0, <1>4
<1>7. v \in Seq(Unit) /\ Len(v) = Len(u) + n
  <2>1. u \in Seq(Unit) /\ head \in Seq(Unit) /\ Len(head) = n
    BY <1>0, <1>5
  <2>2. u \o head \in Seq(Unit) /\ Len(u \o head) = Len(u) + Len(head)
    BY ONLY <2>1, Joined
  <2> QED BY <1>6, <2>1, <2>2
<1>8. Piece(v, k, a)
  <2>1. Piece(head, k, a + Len(u))
    BY <1>2, <1>5
  <2>2. Piece(u \o head, k, a)
    BY <1>0, <1>5, <2>1, PieceJoin
  <2> QED BY <1>6, <2>2
<1> QED BY <1>0, <1>1, <1>2, <1>5, <1>7, <1>8

\* writeRequest() where the server is there.
LEMMA WriteGoesOn ==
    ASSUME XInv, NEW t, NEW i, NEW k, Working(t, i, k), NEW c, c = client[i], c.state = "WRITE_REQUEST",
           wire[c.fd].server # "closed", WriteRequest(i, k)
    PROVE  XInv'
<1>0. /\ t \in Caller /\ k \in Nat /\ k \in DOMAIN call /\ c \in ClientRecord /\ c.in_use_ /\ c.watched
      /\ c.fd \in Conn /\ i \in Client /\ wire[c.fd].client = TRUE /\ peer' = peer /\ call' = call
  BY DEF Working
<1>1. PICK f, s, p, x : f = c.fd /\ s = wire[f] /\ p = peer[f] /\ x = call[k].executed
  OBVIOUS
<1>2. PICK left, u, g : left = c.left /\ u = s.up /\ g = p.got
  OBVIOUS
<1>3. /\ f \in Conn /\ s \in WireRecord /\ s.client = TRUE /\ p \in PeerRecord /\ f # None /\ s.reset = FALSE
      /\ s.server \in {"queued", "open"} /\ left \in Seq(Unit) /\ u \in Seq(Unit) /\ g \in Seq(Unit)
      /\ Len(u) <= Room
  <2>1. f \in Conn /\ s.client = TRUE /\ f # None
    BY <1>0, <1>1, Numbers
  <2>2. s \in WireRecord /\ p \in PeerRecord
    BY <1>1, <2>1 DEF XInv, RpcTypes
  <2>3. s.server # "none" /\ s.server # "closed"
    BY <1>0, <1>1, <2>1 DEF XInv, ClientsOK
  <2>4. left \in Seq(Unit) /\ u \in Seq(Unit) /\ g \in Seq(Unit) /\ Len(u) <= Room
    BY <1>0, <1>1, <1>2, <2>1, <2>2 DEF ClientRecord, WireRecord, PeerRecord, XInv, RpcTypes
  <2>5. s.reset = FALSE
    BY <1>1, <2>1, <2>2, <2>3 DEF WireRecord, XInv, Requests
  <2> QED BY <2>1, <2>2, <2>3, <2>4, <2>5 DEF WireRecord
<1>4. Len(left) \in Nat /\ Len(u) \in Nat /\ Len(g) \in Nat
  BY <1>3, LenProperties
<1>5. Sending(c, k, s, p)
  <2>1. Exchanging(c, k, s, p, x)
    BY <1>1 DEF Working, XInv, Exchange, ThreadAt
  <2> QED BY <1>0, <2>1 DEF Exchanging
<1>6. /\ s.down = <<>> /\ p.left = <<>> /\ Piece(g, k, 0) /\ Piece(u, k, Len(g))
      /\ Piece(left, k, Len(g) + Len(u)) /\ Len(g) + Len(u) + Len(left) = Size
  BY <1>2, <1>3, <1>5 DEF Sending
<1>7. Len(g) < Size
  BY <1>1, <1>2, <1>3 DEF XInv, Requests, Live
<1>8. PICK n, rest, v : n = Smaller(Room - Len(u), Len(left)) /\ rest = SubSeq(left, n + 1, Len(left)) /\ v = u \o SubSeq(left, 1, n)
  OBVIOUS
<1>9. /\ n \in 0 .. Len(left) /\ v \in Seq(Unit) /\ Len(v) = Len(u) + n /\ Len(v) <= Room
      /\ rest \in Seq(Unit) /\ Len(rest) = Len(left) - n /\ Piece(rest, k, (Len(g) + Len(u)) + n) /\ Piece(v, k, Len(g))
  <2>1. Len(g) \in Nat /\ k \in Nat /\ Len(u) <= Room
    BY <1>0, <1>3, <1>4
  <2>2. Piece(u, k, Len(g)) /\ Piece(left, k, Len(g) + Len(u))
    BY <1>6
  <2>3. u \in Seq(Unit) /\ left \in Seq(Unit)
    BY <1>3
  <2>4. PICK a \in Nat : a = Len(g)
    BY <2>1
  <2>5. Piece(u, k, a) /\ Piece(left, k, a + Len(u))
    BY <2>2, <2>4
  <2>6. /\ n \in 0 .. Len(left) /\ v \in Seq(Unit) /\ Len(v) = Len(u) + n /\ Len(v) <= Room
        /\ rest \in Seq(Unit) /\ Len(rest) = Len(left) - n /\ Piece(rest, k, (a + Len(u)) + n) /\ Piece(v, k, a)
    <3>1. Written(u, left, k, a, n, rest, v)
      BY <1>8, <2>1, <2>3, <2>4, <2>5 DEF Written
    <3> QED BY <3>1, WritesOn
  <2> QED BY <2>4, <2>6
<1>10. /\ (Len(g) + Len(u)) + n = Len(g) + Len(v) /\ Len(g) + Len(v) + Len(rest) = Size /\ Len(g) + Len(v) <= Size
       /\ Len(v) \in Nat /\ Len(rest) \in Nat
  <2>1. PICK a, b, l : a = Len(g) /\ b = Len(u) /\ l = Len(left)
    OBVIOUS
  <2>2. a \in Nat /\ b \in Nat /\ l \in Nat /\ a + b + l = Size /\ n \in 0 .. l /\ Len(v) = b + n /\ Len(rest) = l - n /\ Size \in Nat
    BY <1>4, <1>6, <1>9, <2>1, Numbers
  <2>3. (a + b) + n = a + Len(v) /\ a + Len(v) + Len(rest) = Size /\ a + Len(v) <= Size /\ Len(v) \in Nat /\ Len(rest) \in Nat
    BY <2>2
  <2> QED BY <2>1, <2>3
<1>11. Piece(rest, k, Len(g) + Len(v))
  BY <1>9, <1>10
<1>12. PICK r, d : /\ r = [s EXCEPT !.up = v]
                   /\ d = [c EXCEPT !.left = rest, !.got = <<>>, !.state = IF rest = <<>> THEN "READ" ELSE @]
  OBVIOUS
<1>13. /\ r \in WireRecord /\ r.up = v /\ r.down = <<>> /\ r.client = TRUE /\ r.server = s.server /\ r.reset = FALSE
  BY <1>3, <1>6, <1>9, <1>12 DEF WireRecord
<1>14. /\ d \in ClientRecord /\ d.in_use_ /\ d.fd = f /\ d.watched /\ d.left = rest /\ d.got = <<>>
       /\ rest = <<>> => d.state = "READ"
       /\ rest # <<>> => d.state = "WRITE_REQUEST"
       /\ d = [c EXCEPT !.left = rest, !.got = <<>>, !.state = IF rest = <<>> THEN "READ" ELSE c.state]
  BY <1>0, <1>1, <1>9, <1>12, EmptySeq DEF ClientRecord
<1>15. PICK after : after = [wire EXCEPT ![f].up = @ \o SubSeq(left, 1, n)]
  OBVIOUS
<1>16. after = [wire EXCEPT ![f] = r] /\ after[f] = r /\ after \in [Conn -> WireRecord] /\ \A h \in Conn : h # f => after[h] = wire[h]
  <2>1. wire \in [Conn -> WireRecord] /\ after = [wire EXCEPT ![f].up = v]
    BY <1>1, <1>2, <1>3, <1>8, <1>15 DEF XInv, RpcTypes
  <2> QED BY <1>1, <1>3, <1>12, <1>13, <2>1
<1>17. IF rest = <<>> THEN Read(i, d, k, after) ELSE client' = [client EXCEPT ![i] = d] /\ wire' = after
  BY <1>1, <1>2, <1>3, <1>8, <1>12, <1>15 DEF WriteRequest
<1>18. client' = [client EXCEPT ![i] = d] /\ wire' = after
  <2>1. CASE rest # <<>>
    BY <1>17, <2>1
  <2>2. CASE rest = <<>>
    <3>1. Read(i, d, k, after)
      BY <1>17, <2>2
    <3>2. d.got \o r.down = <<>> /\ ~(Len(<<>>) >= Size) /\ r.reset = FALSE /\ r.server # "closed"
      <4>1. <<>> \o <<>> = <<>> /\ Len(<<>>) = 0
        BY EmptySeq, ConcatEmptySeq
      <4>2. ~(0 >= Size)
        BY Numbers
      <4> QED BY <1>3, <1>13, <1>14, <4>1, <4>2
    <3>3. after[d.fd] = r
      BY <1>14, <1>16
    <3>4. client' = [client EXCEPT ![i] = [d EXCEPT !.got = <<>>]] /\ wire' = [after EXCEPT ![d.fd].down = <<>>]
      BY <3>1, <3>2, <3>3 DEF Read
    <3>5. [d EXCEPT !.got = <<>>] = d
      BY <1>14 DEF ClientRecord
    <3>6. [after EXCEPT ![f].down = <<>>] = after
      <4>1. [r EXCEPT !.down = <<>>] = r
        BY <1>13 DEF WireRecord
      <4> QED BY <1>16, <4>1
    <3> QED BY <1>14, <3>4, <3>5, <3>6
  <2> QED BY <2>1, <2>2
<1>19. Exchanging(d, k, r, p, x)
  <2>1. PICK b : b = <<>>
    OBVIOUS
  <2>2. Len(b) = 0 /\ \A m : Piece(b, k, m)
    BY <2>1, EmptySeq DEF Piece
  <2>3. ASSUME rest # <<>> PROVE Sending(d, k, r, p)
    BY <1>2, <1>6, <1>9, <1>10, <1>11, <1>13, <1>14, <2>3 DEF Sending
  <2>4. ASSUME rest = <<>> PROVE Awaiting(d, k, r, p, x)
    <3>1. Len(g) + Len(v) = Size
      <4>1. Len(rest) = 0
        BY <2>4, EmptySeq
      <4> QED BY <1>4, <1>10, <4>1
    <3>2. Requested(d, k, r, p)
      BY <1>2, <1>6, <1>9, <1>13, <1>14, <3>1 DEF Requested
    <3>3. Len(b) + Len(b) <= Size
      BY <2>2, Numbers
    <3> QED BY <1>13, <1>14, <2>1, <2>2, <3>2, <3>3 DEF Awaiting
  <2> QED BY <1>14, <2>3, <2>4 DEF Exchanging
<1>20. Requests' /\ \A h \in Conn : Len(wire'[h].up) <= Room /\ Len(wire'[h].down) <= Room
  <2>1. \A h \in Conn : h # f => wire'[h] = wire[h]
    BY <1>16, <1>18
  <2>2. wire'[f] = r
    BY <1>16, <1>18
  <2>3. ASSUME NEW h \in Conn
        PROVE  /\ wire'[h].reset => wire'[h].server = "closed"
               /\ wire'[h].server # "open" => peer[h] = NewPeer
               /\ peer[h].left # <<>> => peer[h].got = <<>>
    BY <1>1, <1>13, <2>1, <2>2 DEF XInv, Requests
  <2>4. ASSUME NEW h \in Conn, wire'[h].server \in {"queued", "open"}
        PROVE  \E m \in DOMAIN call : /\ Piece(peer[h].got, m, 0) /\ Piece(wire'[h].up, m, Len(peer[h].got))
                                      /\ Len(peer[h].got) < Size /\ Len(peer[h].got) + Len(wire'[h].up) <= Size
    <3>1. CASE h # f
      <4>1. Live(h) /\ wire'[h].up = wire[h].up
        BY <2>1, <2>4, <3>1 DEF Live
      <4> QED BY <4>1 DEF XInv, Requests
    <3>2. CASE h = f
      <4>1. peer[h].got = g /\ wire'[h].up = v
        BY <1>1, <1>2, <1>13, <2>2, <3>2
      <4> QED BY <1>0, <1>6, <1>7, <1>9, <1>10, <4>1
    <3> QED BY <3>1, <3>2
  <2>5. \A h \in Conn : Len(wire'[h].up) <= Room /\ Len(wire'[h].down) <= Room
    <3>1. Len(r.up) <= Room /\ Len(r.down) <= Room
      BY <1>9, <1>13, Numbers, EmptySeq
    <3> QED BY <2>1, <2>2, <3>1 DEF XInv, RpcTypes
  <2> QED BY <1>0, <2>3, <2>4, <2>5 DEF Requests, Live
<1>21. ClientMoves(t, i, d, k)
  <2>1. \A j \in Client : j # i /\ client[j].fd # None => wire'[client[j].fd] = wire[client[j].fd] /\ client[j].fd # d.fd
    <3> SUFFICES ASSUME NEW j \in Client, j # i, client[j].fd # None, NEW h, h = client[j].fd
                 PROVE  wire'[h] = wire[h] /\ h # d.fd
      OBVIOUS
    <3>1. h \in Conn
      BY DEF XInv, RpcTypes, ClientRecord
    <3>2. h # f
      BY <1>0, <1>1 DEF XInv, ClientsOK
    <3> QED BY <1>14, <1>16, <1>18, <3>1, <3>2
  <2>2. /\ t \in Caller /\ i = thread[t].client /\ k = thread[t].call /\ thread[t].at \in {"call", "work"}
        /\ thread' = [thread EXCEPT ![t].at = "work"] /\ call_mutex \in {None, t} /\ call_mutex' = t
        /\ UNCHANGED <<call, clients_, rpc_shutting_down_, peer>>
    BY DEF Working
  <2>3. wire'[d.fd] = r /\ peer[d.fd] = p /\ wire' \in [Conn -> WireRecord] /\ r.server # "none"
    BY <1>1, <1>3, <1>13, <1>14, <1>16, <1>18
  <2>4. d.fd # None /\ d.state \in {"READ", "WRITE_REQUEST"}
    BY <1>3, <1>14
  <2> QED BY <1>1, <1>13, <1>14, <1>18, <1>19, <1>20, <2>1, <2>2, <2>3, <2>4 DEF ClientMoves
<1>22. \A m : Carrying(m)' \subseteq Carrying(m)
  <2>1. \A h \in Conn : h # f => /\ wire'[h].server \in {"queued", "open"} => Live(h)
                                 /\ wire'[h].up = wire[h].up
    BY <1>16, <1>18 DEF Live
  <2>2. d.watched /\ d.state = "WRITE_REQUEST" => d.fd = f
    BY <1>14
  <2>3. \A m : /\ Carrying(m)' \subseteq Carrying(m) \cup {f}
               /\ f \in Carrying(m)' => \/ peer[f].got # <<>> /\ peer[f].got[1][1] = m
                                        \/ wire'[f].up # <<>> /\ wire'[f].up[1][1] = m
                                        \/ m = k
    BY <1>21, <2>1, <2>2, MovesCarry
  <2>4. v # <<>> => v[1][1] = k
    <3> SUFFICES ASSUME v # <<>> PROVE v[1][1] = k
      OBVIOUS
    <3>1. Len(v) # 0
      BY <1>9, EmptySeq
    <3>2. 1 \in 1 .. Len(v)
      BY <1>10, <3>1
    <3>3. v[1] = <<k, Len(g) + 1>>
      BY <1>9, <3>2 DEF Piece
    <3> QED BY <3>3
  <2>5. wire'[f].up = v
    BY <1>13, <1>16, <1>18
  <2>6. Live(f) /\ f \in Conn
    BY <1>1, <1>3 DEF Live
  <2>7. Sends(t, k, f)
    BY <1>0, <1>1 DEF Sends, Working, ThreadAt
  <2>8. \A m : f \in Carrying(m)' => f \in Carrying(m)
    <3>1. f \in Carrying(k)
      BY <1>0, <2>6, <2>7 DEF Carrying
    <3>2. \A m : peer[f].got # <<>> /\ peer[f].got[1][1] = m => f \in Carrying(m)
      BY <2>6 DEF Carrying, Carries
    <3> QED BY <2>3, <2>4, <2>5, <3>1, <3>2
  <2> QED BY <2>3, <2>8
<1>23. ~BrokenOff(t)'
  <2>1. thread'[t].at = "work" /\ client'[thread'[t].client] = d
    BY <1>21, OthersWait DEF ThreadAt
  <2>2. wire'[d.fd].server # "closed"
    BY <1>3, <1>13, <1>14, <1>16, <1>18
  <2> QED BY <1>14, <2>1, <2>2 DEF BrokenOff, ThreadAt
<1> QED BY <1>21, <1>22, <1>23, ClientKeeps

LEMMA WorkInv ==
    ASSUME XInv, NEW t \in Caller, Work(t)
    PROVE  XInv'
<1>1. PICK i, k, c : i = thread[t].client /\ k = thread[t].call /\ c = client[i]
  OBVIOUS
<1>2. /\ ThreadAt(t, "work") /\ c.watched
      /\ UNCHANGED <<thread, call, clients_, call_mutex, rpc_shutting_down_, peer, server_up, rpc_faults>>
      /\ \/ c.state = "WRITE_REQUEST" /\ WriteRequest(i, k)
         \/ c.state = "READ" /\ Read(i, c, k, wire)
  BY <1>1 DEF Work
<1>3. /\ i \in Client /\ k \in DOMAIN call /\ k \in Nat /\ c \in ClientRecord /\ c.fd \in Conn /\ c.in_use_
      /\ wire[c.fd].client = TRUE
  <2>1. Active(t)
    BY <1>2 DEF Active, ThreadAt
  <2>2. i \in Client /\ k \in DOMAIN call /\ c \in ClientRecord /\ c.fd \in Conn /\ k \in Nat
    BY <1>1, <1>2, WorksOn, CallsAre DEF XInv
  <2>3. c.in_use_
    BY <1>1, <2>1 DEF XInv, CallersOK, InUse
  <2>4. wire[c.fd].client
    BY <1>1, <1>2, <2>2, WorksOn, Numbers DEF XInv
  <2>5. wire[c.fd] \in WireRecord
    BY <2>2 DEF XInv, RpcTypes
  <2> QED BY <2>2, <2>3, <2>4, <2>5 DEF WireRecord
<1>4. Working(t, i, k)
  <2>1. call_mutex = t
    BY <1>2 DEF XInv, CallersOK
  <2>2. thread[t] \in ThreadRecord /\ thread = [thread EXCEPT ![t].at = "work"]
    BY <1>2 DEF XInv, RpcTypes, ThreadRecord, ThreadAt
  <2> QED BY <1>1, <1>2, <1>3, <2>1, <2>2 DEF Working, ThreadAt
<1>5. CASE c.state = "WRITE_REQUEST" /\ WriteRequest(i, k)
  <2>1. CASE wire[c.fd].server = "closed"
    BY <1>1, <1>4, <1>5, <2>1, WriteLost
  <2>2. CASE wire[c.fd].server # "closed"
    BY <1>1, <1>4, <1>5, <2>2, WriteGoesOn
  <2> QED BY <2>1, <2>2
<1>6. CASE c.state = "READ" /\ Read(i, c, k, wire)
  <2>1. wire[c.fd].reset => wire[c.fd].server = "closed"
    BY <1>3 DEF XInv, Requests
  <2>2. CASE wire[c.fd].server = "closed" /\ (wire[c.fd].reset \/ Len(c.got \o wire[c.fd].down) < Size)
    BY <1>1, <1>3, <1>4, <1>6, <2>2, LeftAlone, ReadEnded
  <2>3. CASE ~(wire[c.fd].server = "closed" /\ (wire[c.fd].reset \/ Len(c.got \o wire[c.fd].down) < Size))
    <3>1. ~wire[c.fd].reset /\ (wire[c.fd].server # "closed" \/ ~(Len(c.got \o wire[c.fd].down) < Size))
      BY <2>1, <2>3
    <3> QED BY <1>1, <1>4, <1>6, <3>1, ReadGoesOn
  <2> QED BY <2>2, <2>3
<1> QED BY <1>2, <1>5, <1>6

\* MovesCarry, without what the client sends.
LEMMA OnlyCarries ==
    ASSUME XInv, NEW t, NEW i, NEW d, NEW k, ClientMoves(t, i, d, k), NEW f,
           \A h \in Conn : h # f =>
              /\ wire'[h].server \in {"queued", "open"} => Live(h)
              /\ wire'[h].up = wire[h].up,
           d.watched /\ d.state = "WRITE_REQUEST" => d.fd = f
    PROVE  \A n : /\ Carrying(n)' \subseteq Carrying(n) \cup {f}
                  /\ f \in Carrying(n)' => /\ wire'[f].server \in {"queued", "open"}
                                           /\ \/ peer[f].got # <<>> /\ peer[f].got[1][1] = n
                                              \/ wire'[f].up # <<>> /\ wire'[f].up[1][1] = n
                                              \/ n = k
BY MovesCarry

\* A kept connection is used again.
LEMMA UsedAgain ==
    ASSUME XInv, NEW t \in Caller, NEW i, i = thread[t].client, NEW k, k = thread[t].call, ThreadAt(t, "call"),
           NEW c \in ClientRecord, c.in_use_, c.fd = client[i].fd, client[i].state = "IDLE",
           client' = [client EXCEPT ![i] = Prepared(c, k)], wire' = wire,
           thread' = [thread EXCEPT ![t].at = "work"], call_mutex \in {None, t}, call_mutex' = t,
           UNCHANGED <<call, clients_, rpc_shutting_down_, peer>>
    PROVE  XInv'
<1>1. i \in Client /\ k \in DOMAIN call /\ k \in Nat /\ client[i] \in ClientRecord
  <2>1. Active(t)
    BY DEF Active, ThreadAt
  <2> QED BY <2>1, WorksWith, CallsAre DEF XInv, RpcTypes
<1>2. PICK f, s, p, M, d, x : /\ f = c.fd /\ s = wire[f] /\ p = peer[f] /\ M = Message(k) /\ d = Prepared(c, k)
                              /\ x = call[k].executed
  OBVIOUS
<1>3. /\ f \in Conn /\ f # None /\ s.client /\ s.server \in {"open", "closed"} /\ s.down = <<>>
      /\ s.server = "open" => s.up = <<>> /\ p = NewPeer
  <2>1. f = client[i].fd /\ f \in Conn \cup {None}
    BY <1>1, <1>2 DEF ClientRecord
  <2>2. f # None
    BY <1>1, <2>1 DEF XInv, ClientsOK
  <2>3. s.client /\ s.server \in {"open", "closed"} /\ s.down = <<>>
    BY <1>1, <1>2, <2>1, <2>2 DEF XInv, ClientsOK
  <2>4. s.server = "open" => s.up = <<>> /\ p = NewPeer
    BY <1>1, <1>2, <2>1 DEF XInv, ClientsOK, Live
  <2> QED BY <2>1, <2>2, <2>3, <2>4
<1>4. M \in Seq(Unit) /\ Len(M) = Size /\ M # <<>> /\ Piece(M, k, 0) /\ Size = 3
  <2>1. M \in Seq(Unit) /\ Len(M) = Size /\ Piece(M, k, 0) /\ Size = 3
    BY <1>1, <1>2, MessageIs, Numbers
  <2>2. M # <<>>
    <3> SUFFICES ASSUME M = <<>> PROVE FALSE
      OBVIOUS
    <3>1. Len(M) = 0
      BY EmptySeq
    <3> QED BY <2>1, <3>1
  <2> QED BY <2>1, <2>2
<1>5. d \in ClientRecord /\ d.in_use_ /\ d.fd = f /\ d.state = "WRITE_REQUEST" /\ d.watched = TRUE /\ d.left = M
  BY <1>2, <1>4 DEF Prepared, ClientRecord
<1>6. PICK q, b : q = NewPeer /\ b = <<>>
  OBVIOUS
<1>7. q.got = b /\ q.left = b /\ Len(b) = 0 /\ \A n : Piece(b, n, 0)
  BY <1>6, EmptySeq DEF NewPeer, Piece
<1>8. Exchanging(d, k, s, p, x)
  <2>1. Sending(d, k, s, p)
    <3>1. Piece(M, k, 0 + 0) /\ 0 + 0 + Len(M) = Size
      BY <1>4
    <3>2. s.server \in {"queued", "open"} => s.up = b /\ p = q
      BY <1>3, <1>6
    <3> QED BY <1>3, <1>4, <1>5, <1>6, <1>7, <3>1, <3>2 DEF Sending
  <2> QED BY <1>5, <2>1 DEF Exchanging
<1>9. Requests' /\ \A h \in Conn : Len(wire'[h].up) <= Room /\ Len(wire'[h].down) <= Room
  BY LeftAlone, LeftRequests
<1>10. ClientMoves(t, i, d, k)
  <2>1. \A j \in Client : j # i /\ client[j].fd # None => wire'[client[j].fd] = wire[client[j].fd] /\ client[j].fd # d.fd
    BY <1>1, <1>2, <1>5 DEF XInv, ClientsOK
  <2>2. wire' \in [Conn -> WireRecord] /\ thread[t].at \in {"call", "work"}
    BY DEF XInv, RpcTypes, ThreadAt
  <2> QED BY <1>2, <1>3, <1>5, <1>8, <1>9, <2>1, <2>2 DEF ClientMoves
<1>11. \A n : /\ Carrying(n)' \subseteq Carrying(n) \cup {f}
              /\ f \in Carrying(n)' => /\ wire'[f].server \in {"queued", "open"}
                                       /\ \/ peer[f].got # <<>> /\ peer[f].got[1][1] = n
                                          \/ wire'[f].up # <<>> /\ wire'[f].up[1][1] = n
                                          \/ n = k
  <2>1. \A h \in Conn : h # f => /\ wire'[h].server \in {"queued", "open"} => Live(h)
                                 /\ wire'[h].up = wire[h].up
    BY DEF Live
  <2>2. d.watched /\ d.state = "WRITE_REQUEST" => d.fd = f
    BY <1>5
  <2> QED BY <1>10, <2>1, <2>2, OnlyCarries, SMTT(60)
<1>12. \A n : f \in Carrying(n)' => n = k /\ s.server = "open"
  BY <1>2, <1>3, <1>6, <1>7, <1>11
<1>13. BrokenOff(t)
  BY DEF BrokenOff, ThreadAt
<1>14. CASE s.server = "open"
  <2>1. \A n : Carrying(n)' \subseteq IF n = k THEN Carrying(n) \cup {f} ELSE Carrying(n)
    BY <1>11, <1>12
  <2>2. ~BrokenOff(t)'
    <3>1. thread'[t].at = "work" /\ client'[thread'[t].client] = d
      BY <1>10, OthersWait DEF ThreadAt
    <3>2. wire'[d.fd].server = "open"
      BY <1>2, <1>5, <1>14
    <3> QED BY <1>5, <3>1, <3>2 DEF BrokenOff, ThreadAt
  <2> QED BY <1>10, <1>13, <2>1, <2>2, ClientSends
<1>15. CASE s.server # "open"
  <2>1. \A n : Carrying(n)' \subseteq Carrying(n)
    BY <1>11, <1>12, <1>15
  <2> QED BY <1>10, <1>13, <2>1, ClientKeeps
<1> QED BY <1>14, <1>15

LEMMA ExecuteInv ==
    ASSUME XInv, NEW t \in Caller, Execute(t)
    PROVE  XInv'
<1>1. PICK i, k, c : i = thread[t].client /\ k = thread[t].call /\ c = [client[i] EXCEPT !.attempts = 0]
  OBVIOUS
<1>2. /\ ThreadAt(t, "call") /\ call_mutex = None /\ call_mutex' = t /\ thread' = [thread EXCEPT ![t].at = "work"]
      /\ UNCHANGED <<call, clients_, rpc_shutting_down_, peer, server_up, rpc_faults>>
      /\ SetupConnection(i, c, k)
  BY <1>1 DEF Execute, GoTo
<1>3. /\ i \in Client /\ k \in DOMAIN call /\ client[i] \in ClientRecord /\ client[i].in_use_
      /\ wire \in [Conn -> WireRecord] /\ BrokenOff(t) /\ thread[t].at \in {"call", "work"}
  <2>1. Active(t) /\ BrokenOff(t) /\ thread[t].at \in {"call", "work"}
    BY <1>2 DEF Active, BrokenOff, ThreadAt
  <2>2. client[i].in_use_
    BY <1>1, <2>1 DEF XInv, CallersOK, InUse
  <2> QED BY <1>1, <2>1, <2>2, WorksWith DEF XInv, RpcTypes
<1>4. /\ c \in ClientRecord /\ c.in_use_ /\ c.fd = client[i].fd /\ c.state = client[i].state
      /\ c.watched = client[i].watched /\ c.eof = client[i].eof /\ c.watched \in BOOLEAN
  BY <1>1, <1>3 DEF ClientRecord
<1>5. CASE Spent(c)
  <2>1. PICK z, v, f : z = Closed(c) /\ v = Close(wire, f) /\ f = c.fd
    OBVIOUS
  <2>2. z \in ClientRecord /\ z.in_use_ /\ z.fd = None /\ z.state = "NO_CONNECTION" /\ z.watched = FALSE
    BY <1>4, <2>1 DEF Closed, ClientRecord
  <2>3. Connect(i, z, k, v)
    BY <1>2, <1>5, <2>1 DEF SetupConnection
  <2>4. LeftBy(v, i)
    <3>1. CASE f = None
      BY <2>1, <3>1, LeftAlone DEF Close
    <3>2. CASE f # None
      <4>1. f \in Conn
        BY <1>4, <2>1, <3>2 DEF ClientRecord
      <4>2. PICK s, e : s = wire[f] /\ e = [s EXCEPT !.client = FALSE, !.down = <<>>]
        OBVIOUS
      <4>3. /\ e \in WireRecord /\ e.down = <<>> /\ e.up = s.up /\ e.server = s.server /\ e.reset = s.reset
        BY <1>3, <4>1, <4>2, EmptySeq DEF WireRecord
      <4>4. v = [wire EXCEPT ![f] = e]
        BY <1>3, <2>1, <3>2, <4>1, <4>2 DEF Close
      <4>5. v \in [Conn -> WireRecord] /\ v[f] = e /\ \A g \in Conn : g # f => v[g] = wire[g]
        BY <1>3, <4>1, <4>3, <4>4
      <4>6. 0 <= Room /\ Len(<<>>) = 0
        BY Numbers, EmptySeq
      <4>7. \A g \in Conn : /\ wire[g].reset => wire[g].server = "closed"
                            /\ Len(wire[g].down) <= Room
        BY DEF XInv, RpcTypes, Requests
      <4>8. \A g \in Conn : /\ v[g].server = wire[g].server /\ v[g].up = wire[g].up
                            /\ v[g].reset => v[g].server = "closed"
                            /\ Len(v[g].down) <= Room
        BY <4>1, <4>2, <4>3, <4>5, <4>6, <4>7
      <4>9. ASSUME NEW j \in Client, j # i, client[j].fd # None, NEW h, h = client[j].fd
            PROVE  v[h] = wire[h]
        <5>1. h \in Conn
          BY <4>9 DEF XInv, RpcTypes, ClientRecord
        <5>2. h # f
          BY <1>3, <1>4, <2>1, <4>9 DEF XInv, ClientsOK
        <5> QED BY <4>5, <5>1, <5>2
      <4> QED BY <4>5, <4>8, <4>9 DEF LeftBy
    <3> QED BY <3>1, <3>2
  <2> QED BY <1>1, <1>2, <1>3, <2>2, <2>3, <2>4, ConnectInv
<1>6. CASE ~Spent(c) /\ c.state = "NO_CONNECTION"
  <2>1. Connect(i, c, k, wire)
    BY <1>2, <1>6 DEF SetupConnection
  <2>2. c.fd = None
    BY <1>3, <1>4, <1>6 DEF XInv, ClientsOK
  <2>3. c.watched = FALSE
    <3>1. ~client[i].watched
      BY <1>3, <1>4, <1>6 DEF XInv, ClientsOK
    <3> QED BY <1>4, <3>1
  <2> QED BY <1>1, <1>2, <1>3, <1>4, <1>6, <2>1, <2>2, <2>3, LeftAlone, ConnectInv
<1>7. CASE ~Spent(c) /\ c.state # "NO_CONNECTION"
  <2>1. c.state = "IDLE"
    BY <1>7 DEF Spent
  <2>2. client' = [client EXCEPT ![i] = Prepared(c, k)] /\ wire' = wire
    BY <1>2, <1>7 DEF SetupConnection
  <2> QED BY <1>1, <1>2, <1>4, <2>1, <2>2, UsedAgain
<1> QED BY <1>5, <1>6, <1>7

-----------------------------------------------------------------------------
(* The threads' other steps.                                                    *)

\* Thread t goes on, and something is noted of its call k.
ThreadGoes(t, place, k) ==
    /\ t \in Caller /\ Active(t) /\ k = thread[t].call /\ place \in {"call", "worked", "executed", "sleep"}
    /\ thread' = [thread EXCEPT ![t].at = place]
    /\ UNCHANGED <<clients_, client, rpc_shutting_down_, wire, peer>>
    /\ call' \in Seq(CallRecord) /\ DOMAIN call' = DOMAIN call
    /\ \A n \in DOMAIN call : /\ n # k => call'[n] = call[n]
                              /\ call'[n].executed = call[n].executed /\ call'[n].wait = call[n].wait
                              /\ call'[n].result = call[n].result
                              /\ call'[n].disturbed \in Nat /\ call'[n].disturbed >= call[n].disturbed
    /\ call'[k].answer \in {None, k} /\ (call'[k].answer = k => call[k].executed >= 1)
    /\ place # "executed" => call'[k].answer = None
    /\ place = "worked" => client[thread[t].client].watched /\ call_mutex' = t
    /\ call_mutex' \in {call_mutex, None} /\ (call_mutex' # call_mutex => call_mutex = t)
    /\ BrokenOff(t)' => BrokenOff(t) \/ call'[k].disturbed > call[k].disturbed

LEMMA ThreadGoesInv ==
    ASSUME XInv, NEW t, NEW place, NEW k, ThreadGoes(t, place, k)
    PROVE  XInv'
<1> USE Numbers
<1>0. /\ t \in Caller /\ Active(t) /\ k = thread[t].call /\ place \in {"call", "worked", "executed", "sleep"}
      /\ thread' = [thread EXCEPT ![t].at = place] /\ DOMAIN call' = DOMAIN call
      /\ UNCHANGED <<clients_, client, rpc_shutting_down_, wire, peer>>
  BY DEF ThreadGoes
<1>1. k \in DOMAIN call /\ thread[t].client \in Client /\ thread[t] \in ThreadRecord
  BY <1>0, WorksWith DEF XInv, RpcTypes
<1>2. PICK r : r = [thread[t] EXCEPT !.at = place]
  OBVIOUS
<1>3. /\ r \in ThreadRecord /\ r.at = place /\ r.call = k /\ r.client = thread[t].client
      /\ thread' = [thread EXCEPT ![t] = r] /\ thread' \in [Caller -> ThreadRecord]
      /\ thread'[t] = r /\ \A u \in Caller : u # t => thread'[u] = thread[u]
  BY <1>0, <1>1, <1>2 DEF ThreadRecord, XInv, RpcTypes
<1>4. \A n \in DOMAIN call : /\ n # k => call'[n] = call[n]
                             /\ call'[n].executed = call[n].executed /\ call'[n].wait = call[n].wait
                             /\ call'[n].result = call[n].result
                             /\ call'[n].disturbed \in Nat /\ call'[n].disturbed >= call[n].disturbed
  BY DEF ThreadGoes
<1>5. RpcTypes'
  <2>1. call_mutex' \in Caller \cup {None} /\ call' \in Seq(CallRecord)
    BY DEF ThreadGoes, XInv, RpcTypes
  <2> QED BY <1>0, <1>3, <2>1 DEF XInv, RpcTypes
<1>6. CallersOK'
  <2>1. \A u \in Caller : /\ Active(u)' => Active(u)
                          /\ thread'[u].call = thread[u].call /\ thread'[u].client = thread[u].client
    BY <1>0, <1>3 DEF Active, ThreadAt
  <2>2. \A u \in Caller : /\ ThreadAt(u, "idle")' => thread'[u] = Nowhere
                          /\ ThreadAt(u, "work")' \/ ThreadAt(u, "worked")' => call_mutex' = u
    <3>1. ASSUME NEW u \in Caller, u # t, ThreadAt(u, "work") \/ ThreadAt(u, "worked") PROVE call_mutex' = u
      <4>1. call_mutex = u
        BY <3>1 DEF XInv, CallersOK
      <4> QED BY <3>1, <4>1 DEF ThreadGoes
    <3>2. ThreadAt(t, "work")' \/ ThreadAt(t, "worked")' => call_mutex' = t
      BY <1>0, <1>3 DEF ThreadGoes, ThreadAt
    <3>3. \A u \in Caller : ThreadAt(u, "idle")' => thread'[u] = Nowhere
      BY <1>0, <1>3 DEF XInv, CallersOK, ThreadAt
    <3> QED BY <1>3, <3>1, <3>2, <3>3 DEF ThreadAt
  <2>3. ASSUME NEW u \in Caller, Active(u)'
        PROVE  /\ thread'[u].call \in DOMAIN call' /\ call'[thread'[u].call].result = "none"
               /\ thread'[u].client \in Known' /\ client'[thread'[u].client].in_use_
               /\ ~ThreadAt(u, "executed")' => call'[thread'[u].call].answer = None
    <3>1. Active(u) /\ thread'[u].call = thread[u].call /\ thread'[u].client = thread[u].client
      BY <2>1, <2>3
    <3>2. /\ thread[u].call \in DOMAIN call /\ InProgress(thread[u].call)
          /\ thread[u].client \in Known /\ InUse(thread[u].client)
          /\ ~ThreadAt(u, "executed") => call[thread[u].call].answer = None
      BY <3>1 DEF XInv, CallersOK
    <3>3. client'[thread[u].client].in_use_ /\ call'[thread[u].call].result = "none" /\ thread[u].client \in Known'
      BY <1>0, <1>4, <3>2 DEF InProgress, InUse, Known
    <3>4. CASE u = t
      <4>1. ~ThreadAt(u, "executed")' => place # "executed"
        BY <1>3, <3>4 DEF ThreadAt
      <4>2. place # "executed" => call'[k].answer = None
        BY DEF ThreadGoes
      <4> QED BY <1>0, <3>1, <3>2, <3>3, <3>4, <4>1, <4>2
    <3>5. CASE u # t
      <4>1. thread[u].call # k
        BY <1>0, <3>1, <3>5 DEF XInv, CallersOK
      <4>2. call'[thread[u].call] = call[thread[u].call]
        BY <1>4, <3>2, <4>1
      <4>3. ~ThreadAt(u, "executed")' => ~ThreadAt(u, "executed")
        BY <1>3, <3>5 DEF ThreadAt
      <4> QED BY <1>0, <3>1, <3>2, <3>3, <4>2, <4>3
    <3> QED BY <3>4, <3>5
  <2>4. \A u, v \in Caller : Active(u)' /\ Active(v)' /\ u # v =>
          thread'[u].client # thread'[v].client /\ thread'[u].call # thread'[v].call
    BY <2>1 DEF XInv, CallersOK
  <2>5. ASSUME NEW j \in Known', client'[j].in_use_ PROVE \E u \in Caller : Active(u)' /\ thread'[u].client = j
    <3>1. j \in Known /\ InUse(j)
      BY <1>0, <2>5 DEF Known, InUse
    <3>2. PICK u \in Caller : Active(u) /\ thread[u].client = j
      BY <3>1 DEF XInv, CallersOK
    <3>3. Active(u)'
      BY <1>0, <1>3, <3>2 DEF Active, ThreadAt
    <3> QED BY <2>1, <3>2, <3>3
  <2>6. \A j \in Client \ Known' : client'[j] = NewClient
    BY <1>0 DEF Known, XInv, CallersOK
  <2> QED BY <2>2, <2>3, <2>4, <2>5, <2>6 DEF CallersOK, Active, ThreadAt, InProgress, InUse
<1>7. Answers'
  <2>1. ASSUME NEW n \in DOMAIN call
        PROVE  /\ call'[n].answer \in {None, n}
               /\ call'[n].answer = n => call'[n].executed >= 1
               /\ call'[n].result = "true" => call'[n].answer = n \/ rpc_shutting_down_
               /\ call'[n].result = "false" => ~call'[n].wait \/ rpc_shutting_down_
    <3>1. CASE n # k
      BY <1>4, <3>1 DEF XInv, Answers
    <3>2. CASE n = k
      <4>1. call[k].result = "none"
        BY <1>0 DEF XInv, CallersOK, InProgress
      <4>2. call'[k].answer \in {None, k} /\ (call'[k].answer = k => call[k].executed >= 1)
        BY DEF ThreadGoes
      <4> QED BY <1>1, <1>4, <3>2, <4>1, <4>2
    <3> QED BY <3>1, <3>2
  <2> QED BY <1>0, <2>1 DEF Answers
<1>8. ClientsOK'
  BY <1>0 DEF XInv, ClientsOK, Live
<1>9. Requests'
  BY <1>0 DEF XInv, Requests, Live
<1>10. Exchange'
  <2>1. ASSUME NEW u \in Caller, ThreadAt(u, "work")', NEW c, c = client[thread[u].client], NEW n, n = thread[u].call
        PROVE  Exchanging(c, n, wire[c.fd], peer[c.fd], call'[n].executed) /\ u # t /\ thread'[u] = thread[u]
    <3>1. u # t /\ thread'[u] = thread[u] /\ ThreadAt(u, "work")
      BY <1>0, <1>3, <2>1 DEF ThreadAt
    <3>2. n \in DOMAIN call
      BY <2>1, <3>1, WorksWith DEF XInv, Active, ThreadAt
    <3>3. Exchanging(c, n, wire[c.fd], peer[c.fd], call[n].executed)
      BY <2>1, <3>1 DEF XInv, Exchange
    <3> QED BY <1>4, <3>1, <3>2, <3>3
  <2>2. ASSUME NEW u \in Caller, ThreadAt(u, "worked")' PROVE client'[thread'[u].client].watched
    <3>1. CASE u # t
      BY <1>0, <1>3, <2>2, <3>1 DEF XInv, Exchange, ThreadAt
    <3>2. CASE u = t
      <4>1. place = "worked"
        BY <1>3, <2>2, <3>2 DEF ThreadAt
      <4>2. client[thread[t].client].watched
        BY <4>1 DEF ThreadGoes
      <4> QED BY <1>0, <1>3, <3>2, <4>2
    <3> QED BY <3>1, <3>2
  <2> QED BY <1>0, <2>1, <2>2 DEF Exchange
<1>11. Executions'
  <2>1. \A n : Carrying(n)' \subseteq Carrying(n)
    <3>1. \A n : \A f \in Conn : \A u \in Caller : Sends(u, n, f)' => Sends(u, n, f)
      BY <1>0, <1>3 DEF Sends, ThreadAt
    <3>2. \A n : \A f \in Conn : (Live(f)' <=> Live(f)) /\ (Carries(n, f)' <=> Carries(n, f))
      BY <1>0 DEF Live, Carries
    <3> QED BY <3>1, <3>2 DEF Carrying
  <2>2. ASSUME NEW u \in Caller, BrokenOff(u)'
        PROVE  /\ thread'[u].call = thread[u].call /\ thread[u].call \in DOMAIN call
               /\ BrokenOff(u) \/ call'[thread[u].call].disturbed > call[thread[u].call].disturbed
    <3>1. CASE u = t
      <4>1. BrokenOff(t) \/ call'[k].disturbed > call[k].disturbed
        BY <2>2, <3>1 DEF ThreadGoes
      <4> QED BY <1>0, <1>1, <1>3, <3>1, <4>1
    <3>2. CASE u # t
      <4>1. thread'[u] = thread[u]
        BY <1>3, <3>2
      <4>2. Active(u)
        BY <2>2, <4>1 DEF BrokenOff, Active, ThreadAt
      <4>3. thread[u].call \in DOMAIN call /\ thread[u].call # k
        BY <1>0, <3>2, <4>2 DEF XInv, CallersOK
      <4>4. call'[thread[u].call] = call[thread[u].call]
        BY <1>4, <4>3
      <4>5. BrokenOff(u)
        BY <1>0, <2>2, <4>1, <4>4 DEF BrokenOff, ThreadAt
      <4> QED BY <4>1, <4>3, <4>5
    <3> QED BY <3>1, <3>2
  <2> QED BY <1>0, <1>4, <2>1, <2>2, Executed_ DEF XInv
<1> QED BY <1>5, <1>6, <1>7, <1>8, <1>9, <1>10, <1>11 DEF XInv

LEMMA InterruptInv ==
    ASSUME XInv, NEW t \in Caller, Interrupt(t)
    PROVE  XInv'
<1>1. PICK k : k = thread[t].call
  OBVIOUS
<1>2. /\ ThreadAt(t, "work") /\ client[thread[t].client].watched /\ call' = [call EXCEPT ![k].disturbed = @ + 1]
      /\ thread' = [thread EXCEPT ![t].at = "worked"]
      /\ UNCHANGED <<clients_, client, call_mutex, rpc_shutting_down_, wire, peer>>
  BY <1>1 DEF Interrupt, GoTo, ends
<1>3. Active(t) /\ k \in DOMAIN call /\ call_mutex = t /\ call[k].answer = None
  <2>1. Active(t)
    BY <1>2 DEF Active, ThreadAt
  <2> QED BY <1>1, <1>2, <2>1 DEF XInv, CallersOK, ThreadAt
<1>4. PICK c, r : c = call[k] /\ r = [c EXCEPT !.disturbed = @ + 1]
  OBVIOUS
<1>5. c \in CallRecord
  BY <1>3, <1>4, CallsAre DEF XInv
<1>6. /\ r \in CallRecord /\ r.executed = c.executed /\ r.answer = c.answer /\ r.result = c.result /\ r.wait = c.wait
      /\ c.disturbed \in Nat /\ r.disturbed = c.disturbed + 1
  BY <1>4, <1>5 DEF CallRecord
<1>7. call' = [call EXCEPT ![k] = r]
  BY <1>2, <1>4
<1>8. /\ call' \in Seq(CallRecord) /\ DOMAIN call' = DOMAIN call
      /\ call'[k] = r /\ \A n \in DOMAIN call : n # k => call'[n] = call[n]
      /\ \A n \in DOMAIN call : call[n] \in CallRecord
  BY <1>3, <1>6, <1>7, CallChanges DEF XInv
<1>9. \A n \in DOMAIN call : call[n].disturbed \in Nat
  BY <1>8 DEF CallRecord
<1>10. r.disturbed > c.disturbed /\ r.disturbed >= c.disturbed /\ r.disturbed \in Nat
  BY <1>6
<1>11. \A n \in DOMAIN call : /\ n # k => call'[n] = call[n]
                              /\ call'[n].executed = call[n].executed /\ call'[n].wait = call[n].wait
                              /\ call'[n].result = call[n].result
                              /\ call'[n].disturbed \in Nat /\ call'[n].disturbed >= call[n].disturbed
  <2> SUFFICES ASSUME NEW n \in DOMAIN call
               PROVE  /\ n # k => call'[n] = call[n]
                      /\ call'[n].executed = call[n].executed /\ call'[n].wait = call[n].wait
                      /\ call'[n].result = call[n].result
                      /\ call'[n].disturbed \in Nat /\ call'[n].disturbed >= call[n].disturbed
    OBVIOUS
  <2>1. CASE n = k
    BY <1>4, <1>6, <1>8, <1>10, <2>1
  <2>2. CASE n # k
    BY <1>8, <1>9, <2>2
  <2> QED BY <2>1, <2>2
<1>12. call'[k].answer = None /\ call'[k].disturbed > call[k].disturbed /\ None # k
  BY <1>3, <1>4, <1>6, <1>8, <1>10, CallsAre DEF XInv
<1>13. ThreadGoes(t, "worked", k)
  BY <1>1, <1>2, <1>3, <1>8, <1>11, <1>12 DEF ThreadGoes
<1> QED BY <1>13, ThreadGoesInv

LEMMA WorkedInv ==
    ASSUME XInv, NEW t \in Caller, Worked(t)
    PROVE  XInv'
<1>1. PICK i, k, c, a, x : /\ i = thread[t].client /\ k = thread[t].call /\ c = client[i] /\ x = call[k].executed
                           /\ a = (IF c.state = "IDLE" THEN c.got[Size][1] ELSE None)
  OBVIOUS
<1>2. /\ ThreadAt(t, "worked") \/ (ThreadAt(t, "work") /\ ~c.watched)
      /\ call' = [call EXCEPT ![k].answer = a] /\ call_mutex' = None
      /\ thread' = [thread EXCEPT ![t].at = "executed"]
      /\ UNCHANGED <<clients_, client, rpc_shutting_down_, wire, peer>>
  BY <1>1 DEF Worked, GoTo, ends
<1>3. Active(t) /\ k \in DOMAIN call /\ k \in Nat /\ k # None /\ call_mutex = t /\ call[k].answer = None /\ i \in Client
  <2>1. Active(t) /\ ~ThreadAt(t, "executed")
    BY <1>2 DEF Active, ThreadAt
  <2>2. k \in DOMAIN call /\ i \in Client
    BY <1>1, <2>1, WorksWith DEF XInv
  <2> QED BY <1>1, <1>2, <2>1, <2>2, CallsAre DEF XInv, CallersOK
<1>4. a = None \/ (a = k /\ x >= 1)
  <2>1. CASE c.state # "IDLE"
    BY <1>1, <2>1
  <2>2. CASE c.state = "IDLE"
    <3>1. ~c.watched
      BY <1>1, <1>3, <2>2 DEF XInv, ClientsOK
    <3>2. ThreadAt(t, "work")
      BY <1>1, <1>2, <3>1 DEF XInv, Exchange
    <3>3. Received(c, k, x)
      BY <1>1, <2>2, <3>2 DEF XInv, Exchange, Exchanging
    <3>4. PICK g : g = c.got
      OBVIOUS
    <3>5. Piece(g, k, 0) /\ Len(g) = 3 /\ x >= 1 /\ Size = 3
      BY <3>3, <3>4, Numbers DEF Received
    <3>6. g[3] = <<k, 0 + 3>>
      <4>1. 3 \in 1 .. Len(g)
        BY <3>5
      <4> QED BY <3>5, <4>1 DEF Piece
    <3>7. a = g[3][1]
      BY <1>1, <2>2, <3>4, <3>5
    <3> QED BY <3>5, <3>6, <3>7
  <2> QED BY <2>1, <2>2
<1>5. a = None => BrokenOff(t)
  <2>1. ASSUME a = None, ThreadAt(t, "work"), ~c.watched PROVE c.state # "IDLE"
    <3> SUFFICES ASSUME c.state = "IDLE" PROVE FALSE
      OBVIOUS
    <3>1. Received(c, k, x)
      BY <1>1, <2>1 DEF XInv, Exchange, Exchanging
    <3>2. PICK g : g = c.got
      OBVIOUS
    <3>3. Piece(g, k, 0) /\ Len(g) = 3 /\ Size = 3
      BY <3>1, <3>2, Numbers DEF Received
    <3>4. g[3] = <<k, 0 + 3>>
      <4>1. 3 \in 1 .. Len(g)
        BY <3>3
      <4> QED BY <3>3, <4>1 DEF Piece
    <3>5. a = g[3][1]
      BY <1>1, <3>2, <3>3
    <3> QED BY <1>3, <2>1, <3>4, <3>5
  <2>2. a = None /\ ThreadAt(t, "work") /\ ~c.watched => BrokenOff(t)
    BY <1>1, <2>1 DEF BrokenOff
  <2>3. ThreadAt(t, "worked") => BrokenOff(t)
    BY DEF BrokenOff, ThreadAt
  <2> QED BY <1>2, <2>2, <2>3
<1>6. PICK o, r : o = call[k] /\ r = [o EXCEPT !.answer = a]
  OBVIOUS
<1>7. o \in CallRecord
  BY <1>3, <1>6, CallsAre DEF XInv
<1>8. /\ r \in CallRecord /\ r.executed = o.executed /\ r.answer = a /\ r.result = o.result /\ r.wait = o.wait
      /\ r.disturbed = o.disturbed
  <2>1. a \in Nat
    BY <1>3, <1>4, Numbers
  <2> QED BY <1>6, <1>7, <2>1 DEF CallRecord
<1>9. call' = [call EXCEPT ![k] = r]
  BY <1>2, <1>6
<1>10. /\ call' \in Seq(CallRecord) /\ DOMAIN call' = DOMAIN call
       /\ call'[k] = r /\ \A n \in DOMAIN call : n # k => call'[n] = call[n]
       /\ \A n \in DOMAIN call : call[n] \in CallRecord
  BY <1>3, <1>8, <1>9, CallChanges DEF XInv
<1>11. \A n \in DOMAIN call : call[n].disturbed \in Nat /\ call[n].disturbed >= call[n].disturbed
  BY <1>10 DEF CallRecord
<1>12. \A n \in DOMAIN call : /\ n # k => call'[n] = call[n]
                              /\ call'[n].executed = call[n].executed /\ call'[n].wait = call[n].wait
                              /\ call'[n].result = call[n].result
                              /\ call'[n].disturbed \in Nat /\ call'[n].disturbed >= call[n].disturbed
  <2>1. \A n \in DOMAIN call : /\ n # k => call'[n] = call[n]
                               /\ call'[n].executed = call[n].executed /\ call'[n].wait = call[n].wait
                               /\ call'[n].result = call[n].result /\ call'[n].disturbed = call[n].disturbed
    BY <1>6, <1>8, <1>10
  <2> QED BY <1>11, <2>1
<1>13. call'[k].answer = a
  BY <1>8, <1>10
<1>14. BrokenOff(t)' => BrokenOff(t)
  <2>1. thread'[t].at = "executed" /\ thread'[t].call = k
    BY <1>1, <1>2 DEF XInv, RpcTypes, ThreadRecord
  <2>2. BrokenOff(t)' => call'[k].answer = None
    BY <2>1 DEF BrokenOff, ThreadAt
  <2> QED BY <1>5, <1>13, <2>2
<1>15. ThreadGoes(t, "executed", k)
  BY <1>1, <1>2, <1>3, <1>4, <1>10, <1>12, <1>13, <1>14 DEF ThreadGoes
<1> QED BY <1>15, ThreadGoesInv

LEMMA ThreadGoesOn ==
    ASSUME XInv, NEW t \in Caller, NEW place \in {"call", "sleep"}, Active(t), call[thread[t].call].answer = None,
           BrokenOff(t), thread' = [thread EXCEPT ![t].at = place],
           UNCHANGED <<call, clients_, client, call_mutex, rpc_shutting_down_, wire, peer>>
    PROVE  XInv'
<1>1. PICK k : k = thread[t].call
  OBVIOUS
<1>2. k \in DOMAIN call /\ k # None
  BY <1>1, WorksWith, CallsAre DEF XInv
<1>3. \A n \in DOMAIN call : call[n].disturbed \in Nat
  BY CallsAre DEF XInv, CallRecord
<1>4. \A n \in DOMAIN call : call[n].disturbed >= call[n].disturbed
  BY <1>3
<1>5. ThreadGoes(t, place, k)
  BY <1>1, <1>2, <1>3, <1>4 DEF ThreadGoes, XInv, RpcTypes
<1> QED BY <1>5, ThreadGoesInv

\* The call returns, and its client is free.
LEMMA ReleaseInv ==
    ASSUME XInv, NEW t \in Caller, Active(t), NEW result \in {"true", "false"}, ReleaseXMLRPCClient(t, result),
           result = "true" => call[thread[t].call].answer # None \/ rpc_shutting_down_,
           result = "false" => ~call[thread[t].call].wait \/ rpc_shutting_down_
    PROVE  XInv'
<1> USE Numbers
<1>1. PICK i, k, d, o, r, w : /\ i = thread[t].client /\ k = thread[t].call /\ w = Nowhere
                              /\ d = [client[i] EXCEPT !.in_use_ = FALSE] /\ o = call[k] /\ r = [o EXCEPT !.result = result]
  OBVIOUS
<1>2. i \in Client /\ i \in Known /\ k \in DOMAIN call /\ k # None /\ client[i] \in ClientRecord /\ o \in CallRecord
  BY <1>1, WorksWith, CallsAre DEF XInv, RpcTypes
<1>3. /\ d \in ClientRecord /\ d.in_use_ = FALSE /\ d.state = client[i].state /\ d.fd = client[i].fd
      /\ d.watched = client[i].watched
  BY <1>1, <1>2 DEF ClientRecord
<1>4. /\ r \in CallRecord /\ r.executed = o.executed /\ r.answer = o.answer /\ r.result = result /\ r.wait = o.wait
      /\ r.disturbed = o.disturbed
  BY <1>1, <1>2 DEF CallRecord
<1>5. /\ w \in ThreadRecord /\ w.at = "idle" /\ w.client = None
  BY <1>1 DEF Nowhere, ThreadRecord
<1>6. /\ client' = [client EXCEPT ![i] = d] /\ call' = [call EXCEPT ![k] = r] /\ thread' = [thread EXCEPT ![t] = w]
      /\ UNCHANGED <<clients_, call_mutex, rpc_shutting_down_, wire, peer>>
  BY <1>1 DEF ReleaseXMLRPCClient, ends
<1>7. /\ client'[i] = d /\ client' \in [Client -> ClientRecord] /\ \A j \in Client : j # i => client'[j] = client[j]
      /\ thread'[t] = w /\ thread' \in [Caller -> ThreadRecord] /\ \A u \in Caller : u # t => thread'[u] = thread[u]
  BY <1>2, <1>3, <1>5, <1>6 DEF XInv, RpcTypes
<1>8. /\ call' \in Seq(CallRecord) /\ DOMAIN call' = DOMAIN call
      /\ call'[k] = r /\ \A n \in DOMAIN call : n # k => call'[n] = call[n]
  BY <1>2, <1>4, <1>6, CallChanges DEF XInv
<1>9. ASSUME NEW u \in Caller, u # t, Active(u)
      PROVE  thread[u].client # i /\ thread[u].call # k /\ thread[u].client \in Client /\ thread[u].call \in DOMAIN call
  BY <1>1, <1>9, WorksWith DEF XInv, CallersOK
<1>10. \A u \in Caller : Active(u)' => u # t /\ Active(u)
  BY <1>5, <1>7 DEF Active, ThreadAt
<1>11. RpcTypes'
  BY <1>6, <1>7, <1>8 DEF XInv, RpcTypes
<1>12. CallersOK'
  <2>1. \A u \in Caller : /\ ThreadAt(u, "idle")' => thread'[u] = Nowhere
                          /\ ThreadAt(u, "work")' \/ ThreadAt(u, "worked")' => call_mutex' = u
    BY <1>1, <1>5, <1>6, <1>7 DEF XInv, CallersOK, ThreadAt
  <2>2. ASSUME NEW u \in Caller, Active(u)'
        PROVE  /\ thread'[u].call \in DOMAIN call' /\ call'[thread'[u].call].result = "none"
               /\ thread'[u].client \in Known' /\ client'[thread'[u].client].in_use_
               /\ ~ThreadAt(u, "executed")' => call'[thread'[u].call].answer = None
    <3>1. u # t /\ Active(u) /\ thread'[u] = thread[u]
      BY <1>7, <1>10, <2>2
    <3>2. /\ thread[u].client # i /\ thread[u].call # k /\ thread[u].client \in Client /\ thread[u].call \in DOMAIN call
      BY <1>9, <3>1
    <3>3. /\ InProgress(thread[u].call) /\ thread[u].client \in Known /\ InUse(thread[u].client)
          /\ ~ThreadAt(u, "executed") => call[thread[u].call].answer = None
      BY <3>1 DEF XInv, CallersOK
    <3>4. call'[thread[u].call] = call[thread[u].call] /\ client'[thread[u].client] = client[thread[u].client]
      BY <1>7, <1>8, <3>2
    <3> QED BY <1>6, <1>8, <3>1, <3>2, <3>3, <3>4 DEF InProgress, InUse, Known, ThreadAt
  <2>3. \A u, v \in Caller : Active(u)' /\ Active(v)' /\ u # v =>
          thread'[u].client # thread'[v].client /\ thread'[u].call # thread'[v].call
    BY <1>7, <1>10 DEF XInv, CallersOK
  <2>4. ASSUME NEW j \in Known', client'[j].in_use_ PROVE \E u \in Caller : Active(u)' /\ thread'[u].client = j
    <3>1. j \in Known /\ j \in Client
      BY <1>6, <2>4 DEF Known, XInv, RpcTypes, ToSet
    <3>2. j # i /\ InUse(j)
      BY <1>3, <1>7, <2>4, <3>1 DEF InUse
    <3>3. PICK u \in Caller : Active(u) /\ thread[u].client = j
      BY <3>1, <3>2 DEF XInv, CallersOK
    <3>4. u # t /\ thread'[u] = thread[u]
      BY <1>1, <1>7, <3>2, <3>3
    <3>5. Active(u)'
      BY <3>3, <3>4 DEF Active, ThreadAt
    <3> QED BY <3>3, <3>4, <3>5
  <2>5. \A j \in Client \ Known' : client'[j] = NewClient
    BY <1>2, <1>6, <1>7 DEF Known, XInv, CallersOK
  <2> QED BY <2>1, <2>2, <2>3, <2>4, <2>5 DEF CallersOK, Active, ThreadAt, InProgress, InUse
<1>13. Answers'
  <2>1. ASSUME NEW n \in DOMAIN call
        PROVE  /\ call'[n].answer \in {None, n}
               /\ call'[n].answer = n => call'[n].executed >= 1
               /\ call'[n].result = "true" => call'[n].answer = n \/ rpc_shutting_down_
               /\ call'[n].result = "false" => ~call'[n].wait \/ rpc_shutting_down_
    <3>1. CASE n # k
      BY <1>8, <3>1 DEF XInv, Answers
    <3>2. CASE n = k
      BY <1>1, <1>2, <1>4, <1>8, <3>2 DEF XInv, Answers
    <3> QED BY <3>1, <3>2
  <2> QED BY <1>6, <1>8, <2>1 DEF Answers
<1>14. ClientsOK'
  <2>1. \A j \in Client : /\ client'[j].fd = client[j].fd /\ client'[j].state = client[j].state
                          /\ client'[j].watched = client[j].watched
    BY <1>3, <1>7
  <2>2. ASSUME NEW j \in Client, NEW c, c = client'[j]
        PROVE  /\ c.fd = None <=> c.state = "NO_CONNECTION"
               /\ c.fd # None => wire[c.fd].client /\ wire[c.fd].server # "none"
               /\ c.watched => c.state \in {"WRITE_REQUEST", "READ"}
               /\ c.state = "IDLE" =>
                     /\ wire[c.fd].server \in {"open", "closed"} /\ wire[c.fd].down = <<>>
                     /\ wire[c.fd].server \in {"queued", "open"} => wire[c.fd].up = <<>> /\ peer[c.fd] = NewPeer
    <3>1. c.fd = client[j].fd /\ c.state = client[j].state /\ c.watched = client[j].watched
      BY <2>1, <2>2
    <3> QED BY <3>1 DEF XInv, ClientsOK, Live
  <2>3. \A j, l \in Client : j # l /\ client'[j].fd = client'[l].fd => client'[j].fd = None
    BY <2>1 DEF XInv, ClientsOK
  <2> QED BY <1>6, <2>2, <2>3 DEF ClientsOK, Live
<1>15. Requests'
  BY <1>6, <1>8 DEF XInv, Requests, Live
<1>16. Exchange'
  <2>1. ASSUME NEW u \in Caller, ThreadAt(u, "work")' \/ ThreadAt(u, "worked")'
        PROVE  /\ ThreadAt(u, "work")' <=> ThreadAt(u, "work")
               /\ ThreadAt(u, "worked")' <=> ThreadAt(u, "worked")
               /\ thread'[u] = thread[u] /\ client'[thread[u].client] = client[thread[u].client]
               /\ call'[thread[u].call] = call[thread[u].call]
    <3>1. u # t /\ thread'[u] = thread[u]
      BY <1>5, <1>7, <2>1 DEF ThreadAt
    <3>2. Active(u)
      BY <2>1, <3>1 DEF Active, ThreadAt
    <3> QED BY <1>7, <1>8, <1>9, <3>1, <3>2 DEF ThreadAt
  <2> QED BY <1>6, <2>1 DEF XInv, Exchange
<1>17. Executions'
  <2>1. ASSUME NEW u \in Caller, Active(u)'
        PROVE  /\ u # t /\ thread'[u] = thread[u] /\ client'[thread[u].client] = client[thread[u].client]
               /\ call'[thread[u].call] = call[thread[u].call] /\ thread[u].call \in DOMAIN call
    <3>1. u # t /\ Active(u)
      BY <1>10, <2>1
    <3> QED BY <1>7, <1>8, <1>9, <3>1
  <2>2. \A n : \A f \in Conn : \A u \in Caller : Sends(u, n, f)' => Sends(u, n, f)
    <3> SUFFICES ASSUME NEW n, NEW f \in Conn, NEW u \in Caller, Sends(u, n, f)' PROVE Sends(u, n, f)
      OBVIOUS
    <3>1. Active(u)'
      BY DEF Sends, Active, ThreadAt
    <3> QED BY <2>1, <3>1 DEF Sends, ThreadAt
  <2>3. \A n : Carrying(n)' \subseteq Carrying(n)
    <3>1. \A n : \A f \in Conn : (Live(f)' <=> Live(f)) /\ (Carries(n, f)' <=> Carries(n, f))
      BY <1>6 DEF Live, Carries
    <3> QED BY <2>2, <3>1 DEF Carrying
  <2>4. ASSUME NEW u \in Caller, BrokenOff(u)'
        PROVE  thread'[u].call = thread[u].call /\ thread[u].call \in DOMAIN call /\ BrokenOff(u)
    <3>1. Active(u)'
      BY <2>4 DEF BrokenOff, Active, ThreadAt
    <3> QED BY <1>6, <2>1, <2>4, <3>1 DEF BrokenOff, ThreadAt
  <2>5. \A n \in DOMAIN call : call[n].disturbed \in Nat
    BY CallsAre DEF XInv, CallRecord
  <2>6. \A n \in DOMAIN call : call'[n].executed = call[n].executed /\ call'[n].disturbed = call[n].disturbed
    BY <1>1, <1>4, <1>8
  <2>7. \A n \in DOMAIN call : call'[n].disturbed \in Nat /\ call'[n].disturbed >= call[n].disturbed
    BY <2>5, <2>6
  <2> QED BY <1>8, <2>3, <2>4, <2>6, <2>7, Executed_ DEF XInv
<1> QED BY <1>11, <1>12, <1>13, <1>14, <1>15, <1>16, <1>17 DEF XInv

LEMMA ExecutedInv ==
    ASSUME XInv, NEW t \in Caller, Executed(t)
    PROVE  XInv'
<1>1. ThreadAt(t, "executed") /\ Active(t)
  BY DEF Executed, Active, ThreadAt
<1>2. CASE call[thread[t].call].answer # None
  <2>1. ReleaseXMLRPCClient(t, "true")
    BY <1>2 DEF Executed
  <2> QED BY <1>1, <1>2, <2>1, ReleaseInv
<1>3. CASE call[thread[t].call].answer = None /\ (rpc_shutting_down_ \/ ~call[thread[t].call].wait)
  <2>1. ReleaseXMLRPCClient(t, "false")
    BY <1>3 DEF Executed
  <2> QED BY <1>1, <1>3, <2>1, ReleaseInv
<1>4. CASE call[thread[t].call].answer = None /\ ~(rpc_shutting_down_ \/ ~call[thread[t].call].wait)
  <2>1. GoTo(t, "sleep") /\ UNCHANGED <<call, clients_, client, call_mutex, rpc_shutting_down_, ends, rpc_faults>>
    BY <1>4 DEF Executed
  <2>2. BrokenOff(t)
    BY <1>1, <1>4 DEF BrokenOff
  <2> QED BY <1>1, <1>4, <2>1, <2>2, ThreadGoesOn DEF GoTo, ends
<1> QED BY <1>2, <1>3, <1>4

LEMMA SleepInv ==
    ASSUME XInv, NEW t \in Caller, Sleep(t)
    PROVE  XInv'
<1>1. ThreadAt(t, "sleep") /\ Active(t) /\ BrokenOff(t)
  BY DEF Sleep, Active, BrokenOff, ThreadAt
<1>2. CASE rpc_shutting_down_
  BY <1>1, <1>2, ReleaseInv DEF Sleep
<1>3. CASE ~rpc_shutting_down_
  <2>1. GoTo(t, "call") /\ UNCHANGED <<call, clients_, client, call_mutex, rpc_shutting_down_, ends, rpc_faults>>
    BY <1>3 DEF Sleep
  <2>2. call[thread[t].call].answer = None
    BY <1>1 DEF XInv, CallersOK, ThreadAt
  <2> QED BY <1>1, <2>1, <2>2, ThreadGoesOn DEF GoTo, ends
<1> QED BY <1>2, <1>3

-----------------------------------------------------------------------------
(* The server ends; a client is taken, and deleted.                             *)

LEMMA ServerEndsInv ==
    ASSUME XInv, ServerEnds
    PROVE  XInv'
<1> USE Numbers
<1>1. PICK q, b : q = NewPeer /\ b = <<>>
  OBVIOUS
<1>2. q \in PeerRecord /\ q.got = b /\ q.left = b /\ b \in Seq(Unit) /\ Len(b) = 0 /\ 0 <= Room /\ \A k, n : Piece(b, k, n)
  BY <1>1, EmptySeq DEF NewPeer, PeerRecord, Piece
<1>3. /\ peer' = [f \in Conn |-> q] /\ UNCHANGED <<thread, clients_, client, call_mutex, rpc_shutting_down_>>
      /\ call' = [k \in DOMAIN call |-> [call[k] EXCEPT !.disturbed = IF InProgress(k) THEN @ + 1 ELSE @]]
  BY <1>1 DEF ServerEnds
<1>4. ASSUME NEW f \in Conn, NEW s, s = wire[f], NEW r, r = wire'[f]
      PROVE  /\ r \in WireRecord /\ r.client = s.client /\ r.server \notin {"queued", "open"}
             /\ r.server = "none" <=> s.server = "none"
             /\ r.reset => r.server = "closed"
             /\ r.down = s.down \/ r.down = b
             /\ r.up = s.up \/ r.up = b
  <2>0. s \in WireRecord
    BY <1>4 DEF XInv, RpcTypes
  <2>1. CASE s.server \notin {"queued", "open"}
    <3>1. r = s
      BY <1>4, <2>1 DEF ServerEnds
    <3> QED BY <1>4, <2>0, <2>1, <3>1 DEF XInv, Requests
  <2>2. CASE s.server \in {"queued", "open"} /\ (s.server = "queued" \/ s.up # <<>>)
    <3>1. r = [s EXCEPT !.server = "closed", !.reset = TRUE, !.up = b, !.down = b]
      BY <1>1, <1>4, <2>2 DEF ServerEnds
    <3> QED BY <1>2, <2>0, <2>2, <3>1 DEF WireRecord
  <2>3. CASE s.server \in {"queued", "open"} /\ ~(s.server = "queued" \/ s.up # <<>>)
    <3>1. r = [s EXCEPT !.server = "closed"]
      BY <1>4, <2>3 DEF ServerEnds
    <3> QED BY <2>0, <2>3, <3>1 DEF WireRecord
  <2> QED BY <2>1, <2>2, <2>3
<1>5. /\ \A f \in Conn : /\ peer'[f] = q /\ wire'[f].server \notin {"queued", "open"}
                         /\ wire'[f].client = wire[f].client
                         /\ wire'[f].server = "none" <=> wire[f].server = "none"
                         /\ wire'[f].down = wire[f].down \/ wire'[f].down = b
      /\ wire' \in [Conn -> WireRecord] /\ peer' \in [Conn -> PeerRecord]
  <2>1. wire' \in [Conn -> WireRecord]
    <3>1. wire' = [f \in Conn |-> wire'[f]]
      BY DEF ServerEnds
    <3> QED BY <1>4, <3>1
  <2> QED BY <1>2, <1>3, <1>4, <2>1
<1>6. \A f \in Conn : Len(wire'[f].up) <= Room /\ Len(wire'[f].down) <= Room
  <2> SUFFICES ASSUME NEW f \in Conn PROVE Len(wire'[f].up) <= Room /\ Len(wire'[f].down) <= Room
    OBVIOUS
  <2>1. /\ wire'[f].down = wire[f].down \/ wire'[f].down = b
        /\ wire'[f].up = wire[f].up \/ wire'[f].up = b
    BY <1>4
  <2>2. Len(wire[f].up) <= Room /\ Len(wire[f].down) <= Room
    BY DEF XInv, RpcTypes
  <2> QED BY <1>2, <2>1, <2>2
<1>7. call' \in Seq(CallRecord) /\ DOMAIN call' = DOMAIN call
  <2>1. call \in Seq(CallRecord) /\ DOMAIN call = 1 .. Len(call) /\ Len(call) \in Nat
    BY LenProperties DEF XInv, RpcTypes
  <2>2. ASSUME NEW k \in DOMAIN call PROVE [call[k] EXCEPT !.disturbed = IF InProgress(k) THEN @ + 1 ELSE @] \in CallRecord
    <3>1. PICK o : o = call[k]
      OBVIOUS
    <3>2. o \in CallRecord
      BY <2>1, <3>1, ElementOfSeq
    <3>3. [o EXCEPT !.disturbed = IF InProgress(k) THEN @ + 1 ELSE @] \in CallRecord
      BY <3>2 DEF CallRecord
    <3> QED BY <3>1, <3>3
  <2>3. call' \in [1 .. Len(call) -> CallRecord]
    BY <1>3, <2>1, <2>2
  <2>4. call' \in Seq(CallRecord)
    BY <2>1, <2>3, IsASeq
  <2> QED BY <1>3, <2>4
<1>8. ASSUME NEW k \in DOMAIN call, NEW o, o = call[k], NEW r, r = call'[k]
      PROVE  /\ r.executed = o.executed /\ r.answer = o.answer /\ r.result = o.result /\ r.wait = o.wait
             /\ r.disturbed = IF o.result = "none" THEN o.disturbed + 1 ELSE o.disturbed
             /\ r.disturbed \in Nat /\ o.disturbed \in Nat /\ o.executed \in Nat
  <2>1. o \in CallRecord
    BY <1>8, CallsAre DEF XInv
  <2>2. r = [o EXCEPT !.disturbed = IF o.result = "none" THEN @ + 1 ELSE @]
    BY <1>3, <1>8 DEF InProgress
  <2> QED BY <2>1, <2>2 DEF CallRecord
<1>9. RpcTypes'
  BY <1>3, <1>5, <1>6, <1>7 DEF XInv, RpcTypes
<1>10. CallersOK'
  <2>1. \A t \in Caller : Active(t) => thread[t].call \in DOMAIN call
    BY DEF XInv, CallersOK
  <2>2. \A k \in DOMAIN call : call'[k].result = call[k].result /\ call'[k].answer = call[k].answer
    BY <1>8
  <2> QED BY <1>3, <1>7, <2>1, <2>2 DEF XInv, CallersOK, Active, Known, InUse, InProgress, ThreadAt
<1>11. Answers'
  <2>1. \A k \in DOMAIN call : /\ call'[k].executed = call[k].executed /\ call'[k].answer = call[k].answer
                               /\ call'[k].result = call[k].result /\ call'[k].wait = call[k].wait
    BY <1>8
  <2>2. ASSUME NEW n \in DOMAIN call
        PROVE  /\ call'[n].answer \in {None, n}
               /\ call'[n].answer = n => call'[n].executed >= 1
               /\ call'[n].result = "true" => call'[n].answer = n \/ rpc_shutting_down_
               /\ call'[n].result = "false" => ~call'[n].wait \/ rpc_shutting_down_
    BY <2>1 DEF XInv, Answers
  <2> QED BY <1>3, <1>7, <2>2 DEF Answers
<1>12. ClientsOK'
  <2>1. ASSUME NEW i \in Client, NEW c, c = client[i]
        PROVE  /\ c.fd = None <=> c.state = "NO_CONNECTION"
               /\ c.fd # None => wire'[c.fd].client /\ wire'[c.fd].server # "none"
               /\ c.watched => c.state \in {"WRITE_REQUEST", "READ"}
               /\ c.state = "IDLE" =>
                     /\ wire'[c.fd].server \in {"open", "closed"} /\ wire'[c.fd].down = <<>>
                     /\ wire'[c.fd].server \notin {"queued", "open"}
    <3>1. /\ c.fd = None <=> c.state = "NO_CONNECTION"
          /\ c.fd # None => wire[c.fd].client /\ wire[c.fd].server # "none"
          /\ c.watched => c.state \in {"WRITE_REQUEST", "READ"}
          /\ c.state = "IDLE" => wire[c.fd].down = <<>>
          /\ c.fd \in Conn \cup {None}
      BY <2>1 DEF XInv, ClientsOK, RpcTypes, ClientRecord
    <3>2. CASE c.fd = None
      BY <3>1, <3>2
    <3>3. CASE c.fd \in Conn
      <4>1. wire'[c.fd] \in WireRecord
        BY <1>5, <3>3
      <4>2. wire'[c.fd].server \in {"none", "queued", "open", "closed"}
        BY <4>1 DEF WireRecord
      <4> QED BY <1>1, <1>5, <3>1, <3>3, <4>2
    <3> QED BY <3>1, <3>2, <3>3
  <2>2. \A i, j \in Client : i # j /\ client[i].fd = client[j].fd => client[i].fd = None
    BY DEF XInv, ClientsOK
  <2> QED BY <1>3, <2>1, <2>2 DEF ClientsOK, Live
<1>13. Requests'
  <2>1. \A f \in Conn : wire'[f].reset => wire'[f].server = "closed"
    BY <1>4
  <2> QED BY <1>1, <1>2, <1>5, <2>1 DEF Requests, Live
<1>14. Exchange'
  <2>1. ASSUME NEW t \in Caller, ThreadAt(t, "work"), NEW c, c = client[thread[t].client], NEW k, k = thread[t].call
        PROVE  Exchanging(c, k, wire'[c.fd], peer'[c.fd], call'[k].executed)
    <3>1. /\ k \in DOMAIN call /\ c \in ClientRecord /\ (c.watched => c.fd \in Conn)
      BY <2>1, WorksOn DEF XInv
    <3>2. PICK x : x = call[k].executed /\ x = call'[k].executed
      BY <1>8, <3>1
    <3>3. Exchanging(c, k, wire[c.fd], peer[c.fd], x)
      BY <2>1, <3>2 DEF XInv, Exchange
    <3>4. ASSUME c.watched, c.state = "WRITE_REQUEST" PROVE Sending(c, k, wire'[c.fd], peer'[c.fd])
      <4>1. Sending(c, k, wire[c.fd], peer[c.fd])
        BY <3>3, <3>4 DEF Exchanging
      <4> QED BY <1>1, <1>5, <3>1, <3>4, <4>1 DEF Sending
    <3>5. ASSUME c.watched, c.state = "READ" PROVE Awaiting(c, k, wire'[c.fd], peer'[c.fd], x)
      <4>1. PICK s, r, e, h, g : s = wire[c.fd] /\ r = wire'[c.fd] /\ e = s.down /\ h = r.down /\ g = c.got
        OBVIOUS
      <4>2. Awaiting(c, k, s, peer[c.fd], x)
        BY <3>3, <3>5, <4>1 DEF Exchanging
      <4>3. /\ Piece(g, k, 0) /\ Piece(e, k, Len(g)) /\ Len(g) + Len(e) <= Size
            /\ g # <<>> \/ e # <<>> => x >= 1
        BY <4>1, <4>2 DEF Awaiting
      <4>4. (h = e \/ h = b) /\ r.server \notin {"queued", "open"} /\ e \in Seq(Unit) /\ g \in Seq(Unit)
        BY <1>5, <3>1, <3>5, <4>1 DEF ClientRecord, WireRecord, XInv, RpcTypes
      <4>5. Len(g) \in Nat /\ Len(e) \in Nat
        BY <4>4, LenProperties
      <4>6. Len(g) + Len(b) <= Size /\ Piece(b, k, Len(g))
        BY <1>2, <4>3, <4>5
      <4>7. /\ Piece(h, k, Len(g)) /\ Len(g) + Len(h) <= Size
            /\ g # <<>> \/ h # <<>> => x >= 1
        BY <1>1, <4>3, <4>4, <4>6
      <4> QED BY <4>1, <4>3, <4>4, <4>7 DEF Awaiting
    <3> QED BY <3>2, <3>3, <3>4, <3>5 DEF Exchanging
  <2> QED BY <1>3, <2>1 DEF XInv, Exchange, ThreadAt
<1>15. Executions'
  <2>1. \A k : Carrying(k)' = {}
    BY <1>5 DEF Carrying, Live
  <2>2. Cardinality({}) = 0 /\ IsFiniteSet({})
    BY FS_EmptySet
  <2>3. \A k : IsFiniteSet(Carrying(k)') /\ Cardinality(Carrying(k)') = 0
    BY <2>1, <2>2
  <2>4. \A k \in DOMAIN call : /\ IsFiniteSet(Carrying(k)) /\ Cardinality(Carrying(k)) \in Nat
                               /\ call[k].executed + Cardinality(Carrying(k)) <= 1 + call[k].disturbed
    BY FS_CardinalityType DEF XInv, Executions
  <2>5. ASSUME NEW k \in DOMAIN call
        PROVE  /\ call'[k].executed + 0 <= 1 + call'[k].disturbed
               /\ call[k].result = "none" => call'[k].executed + 0 <= call'[k].disturbed
    <3>1. PICK x, y, z, n : x = call[k].executed /\ y = call[k].disturbed /\ z = call'[k].disturbed /\ n = Cardinality(Carrying(k))
      OBVIOUS
    <3>2. /\ x \in Nat /\ y \in Nat /\ z \in Nat /\ n \in Nat /\ x + n <= 1 + y /\ call'[k].executed = x
          /\ z = IF call[k].result = "none" THEN y + 1 ELSE y
      BY <1>8, <2>4, <3>1
    <3>3. x + 0 <= 1 + z
      BY <3>2
    <3>4. call[k].result = "none" => x + 0 <= z
      BY <3>2
    <3> QED BY <3>1, <3>2, <3>3, <3>4
  <2>6. ASSUME NEW t \in Caller, BrokenOff(t)'
        PROVE  thread'[t].call \in DOMAIN call /\ call[thread'[t].call].result = "none"
    <3>1. Active(t)
      BY <1>3, <2>6 DEF BrokenOff, Active, ThreadAt
    <3> QED BY <1>3, <3>1 DEF XInv, CallersOK, InProgress
  <2>7. ASSUME NEW k \in DOMAIN call'
        PROVE  IsFiniteSet(Carrying(k)') /\ call'[k].executed + Cardinality(Carrying(k)') <= 1 + call'[k].disturbed
    BY <1>7, <2>3, <2>5
  <2>8. ASSUME NEW t \in Caller, BrokenOff(t)', NEW k, k = thread'[t].call
        PROVE  call'[k].executed + Cardinality(Carrying(k)') <= call'[k].disturbed
    BY <2>3, <2>5, <2>6, <2>8
  <2> QED BY <2>7, <2>8 DEF Executions
<1> QED BY <1>9, <1>10, <1>11, <1>12, <1>13, <1>14, <1>15 DEF XInv

LEMMA GetXMLRPCClientInv ==
    ASSUME XInv, NEW t \in Caller, NEW wait \in BOOLEAN, GetXMLRPCClient(t, wait)
    PROVE  XInv'
<1> USE Numbers
<1>1. PICK k, o : k = Len(call) + 1 /\ o = [wait |-> wait, executed |-> 0, disturbed |-> 0, answer |-> None, result |-> "none"]
  OBVIOUS
<1>2. /\ call \in Seq(CallRecord) /\ DOMAIN call = 1 .. Len(call) /\ Len(call) \in Nat /\ k \in Nat /\ k # None
      /\ k \notin DOMAIN call
  <2>1. call \in Seq(CallRecord) /\ DOMAIN call = 1 .. Len(call) /\ Len(call) \in Nat
    BY LenProperties DEF XInv, RpcTypes
  <2> QED BY <1>1, <2>1
<1>3. /\ o \in CallRecord /\ o.executed = 0 /\ o.disturbed = 0 /\ o.answer = None /\ o.result = "none"
  BY <1>1 DEF CallRecord
<1>4. call' = Append(call, o) /\ ThreadAt(t, "idle") /\ ~rpc_shutting_down_
  BY <1>1 DEF GetXMLRPCClient
<1>5. /\ call' \in Seq(CallRecord) /\ DOMAIN call' = DOMAIN call \cup {k} /\ call'[k] = o
      /\ \A n \in DOMAIN call : call'[n] = call[n]
  <2>1. call' \in Seq(CallRecord) /\ Len(call') = k /\ call'[k] = o /\ \A n \in 1 .. Len(call) : call'[n] = call[n]
    BY <1>1, <1>2, <1>3, <1>4, AppendProperties
  <2>2. DOMAIN call' = 1 .. k
    BY <2>1, LenProperties
  <2> QED BY <1>1, <1>2, <2>1, <2>2
<1>6. PICK i \in Client : /\ Reserve(t, i, k) /\ client[i].in_use_ = FALSE
                          /\ i \in Known' /\ Known \subseteq Known' /\ Known' \subseteq Known \cup {i}
                          /\ clients_' \in Seq(Client)
                          /\ \A m, n \in DOMAIN clients_' : clients_'[m] = clients_'[n] => m = n
  <2>1. clients_ \in Seq(Client) /\ DOMAIN clients_ = 1 .. Len(clients_) /\ Len(clients_) \in Nat
    BY LenProperties DEF XInv, RpcTypes
  <2>2. \A m \in DOMAIN clients_ : clients_[m] \in Client /\ clients_[m] \in Known
    BY <2>1, ElementOfSeq DEF Known, ToSet
  <2>3. \A j \in Client : client[j].in_use_ \in BOOLEAN
    BY DEF XInv, RpcTypes, ClientRecord
  <2>4. PICK idle : idle = {m \in DOMAIN clients_ : ~InUse(clients_[m])}
    OBVIOUS
  <2>5. CASE idle # {}
    <3>1. PICK first : first = CHOOSE m \in idle : \A n \in idle : m <= n
      OBVIOUS
    <3>2. first \in idle
      <4>1. idle \subseteq Nat
        BY <2>1, <2>4
      <4>2. \E m \in idle : \A n \in idle : m <= n
        BY <2>5, <4>1, LeastNatural
      <4> QED BY <3>1, <4>2
    <3>3. Reserve(t, clients_[first], k) /\ clients_' = clients_
      BY <1>1, <2>4, <2>5, <3>1 DEF GetXMLRPCClient
    <3>4. clients_[first] \in Client /\ clients_[first] \in Known /\ client[clients_[first]].in_use_ = FALSE
      BY <2>2, <2>3, <2>4, <3>2 DEF InUse
    <3>5. Known' = Known
      BY <3>3 DEF Known
    <3> QED BY <3>3, <3>4, <3>5 DEF XInv, RpcTypes
  <2>6. CASE idle = {}
    <3>1. PICK i \in Client \ ToSet(clients_) : Reserve(t, i, k) /\ clients_' = Append(clients_, i)
      BY <1>1, <2>4, <2>6 DEF GetXMLRPCClient
    <3>2. client[i].in_use_ = FALSE
      BY <3>1 DEF XInv, CallersOK, Known, NewClient
    <3>3. PICK n : n = Len(clients_) + 1
      OBVIOUS
    <3>4. clients_' \in Seq(Client) /\ Len(clients_') = n /\ clients_'[n] = i /\ \A m \in 1 .. Len(clients_) : clients_'[m] = clients_[m]
      BY <2>1, <3>1, <3>3, AppendProperties
    <3>5. DOMAIN clients_' = DOMAIN clients_ \cup {n} /\ n \notin DOMAIN clients_
      <4>1. DOMAIN clients_' = 1 .. n
        BY <3>4, LenProperties
      <4> QED BY <2>1, <3>3, <4>1
    <3>6. Known' = Known \cup {i}
      <4>1. \A x : x \in Known' <=> \E m \in DOMAIN clients_' : clients_'[m] = x
        BY DEF Known, ToSet
      <4>2. \A x : x \in Known <=> \E m \in DOMAIN clients_ : clients_[m] = x
        BY DEF Known, ToSet
      <4>3. \A m \in DOMAIN clients_ : clients_'[m] = clients_[m]
        BY <2>1, <3>4
      <4> QED BY <3>4, <3>5, <4>1, <4>2, <4>3
    <3>7. \A m \in DOMAIN clients_ : clients_'[m] = clients_[m] /\ clients_[m] # i
      BY <2>1, <2>2, <3>1, <3>4 DEF Known
    <3>8. ASSUME NEW m \in DOMAIN clients_', NEW l \in DOMAIN clients_', clients_'[m] = clients_'[l] PROVE m = l
      <4>1. CASE m = n
        BY <3>4, <3>5, <3>7, <3>8, <4>1
      <4>2. CASE l = n
        BY <3>4, <3>5, <3>7, <3>8, <4>2
      <4>3. CASE m # n /\ l # n
        <5>1. m \in DOMAIN clients_ /\ l \in DOMAIN clients_
          BY <3>5, <4>3
        <5>2. clients_[m] = clients_[l]
          BY <3>7, <3>8, <5>1
        <5> QED BY <5>1, <5>2 DEF XInv, RpcTypes
      <4> QED BY <4>1, <4>2, <4>3
    <3> QED BY <3>1, <3>2, <3>4, <3>6, <3>8
  <2> QED BY <2>5, <2>6
<1>7. PICK d, w : d = [client[i] EXCEPT !.in_use_ = TRUE] /\ w = [at |-> "call", call |-> k, client |-> i]
  OBVIOUS
<1>8. /\ client[i] \in ClientRecord /\ d \in ClientRecord /\ d.in_use_ /\ d.fd = client[i].fd /\ d.state = client[i].state
      /\ d.watched = client[i].watched
      /\ w \in ThreadRecord /\ w.at = "call" /\ w.call = k /\ w.client = i
  <2>1. client[i] \in ClientRecord
    BY DEF XInv, RpcTypes
  <2> QED BY <1>2, <1>7, <2>1 DEF ClientRecord, ThreadRecord
<1>9. /\ client' = [client EXCEPT ![i] = d] /\ thread' = [thread EXCEPT ![t] = w]
      /\ UNCHANGED <<call_mutex, rpc_shutting_down_, wire, peer>>
  <2>1. UNCHANGED <<call_mutex, rpc_shutting_down_, wire, peer>>
    BY DEF GetXMLRPCClient, ends
  <2> QED BY <1>6, <1>7, <2>1 DEF Reserve
<1>10. /\ client'[i] = d /\ client' \in [Client -> ClientRecord] /\ \A j \in Client : j # i => client'[j] = client[j]
       /\ thread'[t] = w /\ thread' \in [Caller -> ThreadRecord] /\ \A u \in Caller : u # t => thread'[u] = thread[u]
  BY <1>8, <1>9 DEF XInv, RpcTypes
<1>11. ASSUME NEW u \in Caller, Active(u)
       PROVE  /\ u # t /\ thread'[u] = thread[u] /\ thread[u].client # i /\ thread[u].client \in Client
              /\ thread[u].call \in DOMAIN call /\ thread[u].call # k /\ call'[thread[u].call] = call[thread[u].call]
              /\ client'[thread[u].client] = client[thread[u].client] /\ Active(u)'
  <2>1. u # t
    BY <1>4, <1>11 DEF Active, ThreadAt
  <2>2. thread[u].client \in Client /\ thread[u].call \in DOMAIN call
    BY <1>11, WorksWith DEF XInv
  <2>3. thread[u].client # i
    BY <1>6, <1>11 DEF XInv, CallersOK, InUse
  <2> QED BY <1>2, <1>5, <1>10, <1>11, <2>1, <2>2, <2>3 DEF Active, ThreadAt
<1>12. \A u \in Caller : Active(u)' => u = t \/ Active(u)
  BY <1>10 DEF Active, ThreadAt
<1>13. RpcTypes'
  BY <1>5, <1>6, <1>9, <1>10 DEF XInv, RpcTypes
<1>14. CallersOK'
  <2>1. \A u \in Caller : /\ ThreadAt(u, "idle")' => thread'[u] = Nowhere
                          /\ ThreadAt(u, "work")' \/ ThreadAt(u, "worked")' => call_mutex' = u
    BY <1>8, <1>9, <1>10 DEF XInv, CallersOK, ThreadAt
  <2>2. ASSUME NEW u \in Caller, Active(u)'
        PROVE  /\ thread'[u].call \in DOMAIN call' /\ call'[thread'[u].call].result = "none"
               /\ thread'[u].client \in Known' /\ client'[thread'[u].client].in_use_
               /\ ~ThreadAt(u, "executed")' => call'[thread'[u].call].answer = None
    <3>1. CASE u = t
      BY <1>3, <1>5, <1>6, <1>8, <1>10, <3>1
    <3>2. CASE Active(u)
      <4>1. /\ InProgress(thread[u].call) /\ thread[u].client \in Known /\ InUse(thread[u].client)
            /\ ~ThreadAt(u, "executed") => call[thread[u].call].answer = None
        BY <3>2 DEF XInv, CallersOK
      <4> QED BY <1>5, <1>6, <1>11, <3>2, <4>1 DEF InProgress, InUse, ThreadAt
    <3> QED BY <1>12, <2>2, <3>1, <3>2
  <2>3. ASSUME NEW u \in Caller, NEW v \in Caller, Active(u)', Active(v)', u # v
        PROVE  thread'[u].client # thread'[v].client /\ thread'[u].call # thread'[v].call
    <3>1. CASE Active(u) /\ Active(v)
      BY <1>11, <2>3, <3>1 DEF XInv, CallersOK
    <3>2. CASE Active(u) /\ v = t
      BY <1>8, <1>10, <1>11, <3>2
    <3>3. CASE u = t /\ Active(v)
      BY <1>8, <1>10, <1>11, <3>3
    <3> QED BY <1>12, <2>3, <3>1, <3>2, <3>3
  <2>4. ASSUME NEW j \in Known', client'[j].in_use_ PROVE \E u \in Caller : Active(u)' /\ thread'[u].client = j
    <3>1. CASE j = i
      <4>1. Active(t)'
        BY <1>8, <1>10 DEF Active, ThreadAt
      <4> QED BY <1>8, <1>10, <3>1, <4>1
    <3>2. CASE j # i
      <4>1. j \in Known /\ j \in Client
        <5>1. j \in Known
          BY <1>6, <2>4, <3>2
        <5>2. \A x \in Known : x \in Client
          BY ElementOfSeq DEF Known, XInv, RpcTypes, ToSet
        <5> QED BY <5>1, <5>2
      <4>2. InUse(j)
        BY <1>10, <2>4, <3>2, <4>1 DEF InUse
      <4>3. PICK u \in Caller : Active(u) /\ thread[u].client = j
        BY <4>1, <4>2 DEF XInv, CallersOK
      <4> QED BY <1>11, <4>3
    <3> QED BY <3>1, <3>2
  <2>5. \A j \in Client \ Known' : client'[j] = NewClient
    BY <1>6, <1>10 DEF XInv, CallersOK
  <2> QED BY <2>1, <2>2, <2>3, <2>4, <2>5 DEF CallersOK, Active, ThreadAt, InProgress, InUse
<1>15. Answers'
  <2>1. ASSUME NEW n \in DOMAIN call'
        PROVE  /\ call'[n].answer \in {None, n}
               /\ call'[n].answer = n => call'[n].executed >= 1
               /\ call'[n].result = "true" => call'[n].answer = n \/ rpc_shutting_down_
               /\ call'[n].result = "false" => ~call'[n].wait \/ rpc_shutting_down_
    <3>1. CASE n \in DOMAIN call
      BY <1>5, <3>1 DEF XInv, Answers
    <3>2. CASE n = k
      BY <1>2, <1>3, <1>5, <3>2
    <3> QED BY <1>5, <3>1, <3>2
  <2> QED BY <1>9, <2>1 DEF Answers
<1>16. ClientsOK'
  <2>1. \A j \in Client : /\ client'[j].fd = client[j].fd /\ client'[j].state = client[j].state
                          /\ client'[j].watched = client[j].watched
    BY <1>8, <1>10
  <2>2. ASSUME NEW j \in Client, NEW c, c = client'[j]
        PROVE  /\ c.fd = None <=> c.state = "NO_CONNECTION"
               /\ c.fd # None => wire[c.fd].client /\ wire[c.fd].server # "none"
               /\ c.watched => c.state \in {"WRITE_REQUEST", "READ"}
               /\ c.state = "IDLE" =>
                     /\ wire[c.fd].server \in {"open", "closed"} /\ wire[c.fd].down = <<>>
                     /\ wire[c.fd].server \in {"queued", "open"} => wire[c.fd].up = <<>> /\ peer[c.fd] = NewPeer
    <3>1. c.fd = client[j].fd /\ c.state = client[j].state /\ c.watched = client[j].watched
      BY <2>1, <2>2
    <3> QED BY <3>1 DEF XInv, ClientsOK, Live
  <2>3. \A j, l \in Client : j # l /\ client'[j].fd = client'[l].fd => client'[j].fd = None
    BY <2>1 DEF XInv, ClientsOK
  <2> QED BY <1>9, <2>2, <2>3 DEF ClientsOK, Live
<1>17. Requests'
  BY <1>5, <1>9 DEF XInv, Requests, Live
<1>18. Exchange'
  <2>1. ASSUME NEW u \in Caller, ThreadAt(u, "work")' \/ ThreadAt(u, "worked")'
        PROVE  /\ ThreadAt(u, "work")' <=> ThreadAt(u, "work")
               /\ ThreadAt(u, "worked")' <=> ThreadAt(u, "worked")
               /\ thread'[u] = thread[u] /\ client'[thread[u].client] = client[thread[u].client]
               /\ call'[thread[u].call] = call[thread[u].call]
    <3>1. u # t /\ thread'[u] = thread[u]
      BY <1>8, <1>10, <2>1 DEF ThreadAt
    <3>2. Active(u)
      BY <2>1, <3>1 DEF Active, ThreadAt
    <3> QED BY <1>11, <3>1, <3>2 DEF ThreadAt
  <2> QED BY <1>9, <2>1 DEF XInv, Exchange
<1>19. Executions'
  <2>1. ASSUME NEW n, NEW f \in Conn
        PROVE  /\ Live(f)' <=> Live(f)
               /\ Carries(n, f)' <=> Carries(n, f)
               /\ \A u \in Caller : Sends(u, n, f)' => Sends(u, n, f)
    <3>1. ASSUME NEW u \in Caller, Sends(u, n, f)' PROVE Sends(u, n, f)
      <4>1. u # t /\ thread'[u] = thread[u]
        BY <1>8, <1>10, <3>1 DEF Sends, ThreadAt
      <4>2. Active(u)
        BY <3>1, <4>1 DEF Sends, Active, ThreadAt
      <4> QED BY <1>11, <3>1, <4>1, <4>2 DEF Sends, ThreadAt
    <3> QED BY <1>9, <3>1 DEF Live, Carries
  <2>2. \A n : Carrying(n)' \subseteq Carrying(n)
    BY <2>1 DEF Carrying
  <2>3. Carrying(k) = {}
    <3> SUFFICES ASSUME NEW f \in Conn, Live(f), Carries(k, f) \/ \E u \in Caller : Sends(u, k, f) PROVE FALSE
      BY DEF Carrying
    <3>1. ASSUME Carries(k, f) PROVE FALSE
      <4>1. PICK g, v : g = peer[f].got /\ v = wire[f].up
        OBVIOUS
      <4>2. PICK n \in DOMAIN call : Piece(g, n, 0) /\ Piece(v, n, Len(g))
        BY <4>1 DEF XInv, Requests
      <4>3. g \in Seq(Unit) /\ v \in Seq(Unit)
        BY <4>1 DEF XInv, RpcTypes, PeerRecord, WireRecord
      <4>4. g # <<>> => g[1] = <<n, 0 + 1>>
        <5>1. g # <<>> => 1 \in 1 .. Len(g)
          BY <4>3, EmptySeq, LenProperties
        <5> QED BY <4>2, <5>1 DEF Piece
      <4>5. v # <<>> => v[1] = <<n, Len(g) + 1>>
        <5>1. v # <<>> => 1 \in 1 .. Len(v)
          BY <4>3, EmptySeq, LenProperties
        <5> QED BY <4>2, <5>1 DEF Piece
      <4> QED BY <1>2, <3>1, <4>1, <4>2, <4>4, <4>5 DEF Carries
    <3>2. ASSUME NEW u \in Caller, Sends(u, k, f) PROVE FALSE
      <4>1. Active(u) /\ thread[u].call = k
        BY <3>2 DEF Sends, Active, ThreadAt
      <4> QED BY <1>11, <4>1
    <3> QED BY <3>1, <3>2
  <2>4. Cardinality({}) = 0 /\ IsFiniteSet({}) /\ Carrying(k)' = {}
    BY <2>2, <2>3, FS_EmptySet
  <2>5. \A n \in DOMAIN call : call[n].executed \in Nat /\ call[n].disturbed \in Nat
    BY CallsAre DEF XInv, CallRecord
  <2>6. ASSUME NEW n \in DOMAIN call
        PROVE  /\ IsFiniteSet(Carrying(n)') /\ Cardinality(Carrying(n)') \in Nat
               /\ Cardinality(Carrying(n)) \in Nat /\ Cardinality(Carrying(n)') <= Cardinality(Carrying(n))
    <3>1. IsFiniteSet(Carrying(n))
      BY DEF XInv, Executions
    <3> QED BY <2>2, <3>1, FewerElements
  <2>7. ASSUME NEW n \in DOMAIN call'
        PROVE  IsFiniteSet(Carrying(n)') /\ call'[n].executed + Cardinality(Carrying(n)') <= 1 + call'[n].disturbed
    <3>1. CASE n \in DOMAIN call
      <4>1. call[n].executed + Cardinality(Carrying(n)) <= 1 + call[n].disturbed
        BY <3>1 DEF XInv, Executions
      <4> QED BY <1>5, <2>5, <2>6, <3>1, <4>1
    <3>2. CASE n = k
      <4>1. call'[n].executed = 0 /\ call'[n].disturbed = 0 /\ Carrying(n)' = {}
        BY <1>3, <1>5, <2>4, <3>2
      <4>2. IsFiniteSet(Carrying(n)') /\ Cardinality(Carrying(n)') = 0
        BY <2>4, <4>1
      <4> QED BY <4>1, <4>2
    <3> QED BY <1>5, <2>7, <3>1, <3>2
  <2>8. ASSUME NEW u \in Caller, BrokenOff(u)', NEW n, n = thread'[u].call
        PROVE  call'[n].executed + Cardinality(Carrying(n)') <= call'[n].disturbed
    <3>1. CASE u = t
      <4>1. n = k
        BY <1>8, <1>10, <2>8, <3>1
      <4>2. call'[n].executed = 0 /\ call'[n].disturbed = 0 /\ Carrying(n)' = {}
        BY <1>3, <1>5, <2>4, <4>1
      <4>3. Cardinality(Carrying(n)') = 0
        BY <2>4, <4>2
      <4> QED BY <4>2, <4>3
    <3>2. CASE u # t
      <4>1. thread'[u] = thread[u]
        BY <1>10, <3>2
      <4>2. Active(u)
        BY <2>8, <4>1 DEF BrokenOff, Active, ThreadAt
      <4>3. BrokenOff(u) /\ n = thread[u].call /\ n \in DOMAIN call
        BY <1>9, <1>11, <2>8, <4>1, <4>2 DEF BrokenOff, ThreadAt
      <4>4. call[n].executed + Cardinality(Carrying(n)) <= call[n].disturbed
        BY <4>3 DEF XInv, Executions
      <4>5. /\ call'[n] = call[n] /\ call[n].executed \in Nat /\ call[n].disturbed \in Nat
            /\ Cardinality(Carrying(n)') \in Nat /\ Cardinality(Carrying(n)) \in Nat
            /\ Cardinality(Carrying(n)') <= Cardinality(Carrying(n))
        BY <1>5, <2>5, <2>6, <4>3
      <4>6. call[n].executed + Cardinality(Carrying(n)') <= call[n].disturbed
        BY <4>4, <4>5
      <4> QED BY <4>5, <4>6
    <3> QED BY <3>1, <3>2
  <2> QED BY <2>7, <2>8 DEF Executions
<1> QED BY <1>13, <1>14, <1>15, <1>16, <1>17, <1>18, <1>19 DEF XInv

\* close() of the connection of a client, as the others see it.
LEMMA ClosedWire ==
    ASSUME XInv, NEW i \in Client, NEW v, v = Close(wire, client[i].fd)
    PROVE  v \in [Conn -> WireRecord] /\ LeftBy(v, i)
<1>0. client[i] \in ClientRecord /\ wire \in [Conn -> WireRecord]
  BY DEF XInv, RpcTypes
<1>1. PICK f : f = client[i].fd
  OBVIOUS
<1>2. CASE f = None
  BY <1>0, <1>1, <1>2, LeftAlone DEF Close
<1>3. CASE f # None
  <2>1. f \in Conn
    BY <1>0, <1>1, <1>3 DEF ClientRecord
  <2>2. PICK s, e : s = wire[f] /\ e = [s EXCEPT !.client = FALSE, !.down = <<>>]
    OBVIOUS
  <2>3. e \in WireRecord /\ e.down = <<>> /\ e.up = s.up /\ e.server = s.server /\ e.reset = s.reset
    BY <1>0, <2>1, <2>2, EmptySeq DEF WireRecord
  <2>4. v = [wire EXCEPT ![f] = e]
    BY <1>0, <1>1, <1>3, <2>1, <2>2 DEF Close
  <2>5. v \in [Conn -> WireRecord] /\ v[f] = e /\ \A g \in Conn : g # f => v[g] = wire[g]
    BY <1>0, <2>1, <2>3, <2>4
  <2>6. 0 <= Room /\ Len(<<>>) = 0
    BY Numbers, EmptySeq
  <2>7. \A g \in Conn : (wire[g].reset => wire[g].server = "closed") /\ Len(wire[g].down) <= Room
    BY DEF XInv, RpcTypes, Requests
  <2>8. \A g \in Conn : /\ v[g].server = wire[g].server /\ v[g].up = wire[g].up
                        /\ v[g].reset => v[g].server = "closed"
                        /\ Len(v[g].down) <= Room
    BY <2>1, <2>2, <2>3, <2>5, <2>6, <2>7
  <2>9. ASSUME NEW j \in Client, j # i, client[j].fd # None, NEW h, h = client[j].fd
        PROVE  v[h] = wire[h]
    <3>1. h \in Conn
      BY <2>9 DEF XInv, RpcTypes, ClientRecord
    <3>2. h # f
      BY <1>1, <2>9 DEF XInv, ClientsOK
    <3> QED BY <2>5, <3>1, <3>2
  <2> QED BY <2>5, <2>8, <2>9 DEF LeftBy
<1> QED BY <1>2, <1>3

\* The client deleted is the first XMLRPCManager knows, and then it knows the others.
LEMMA FirstDeleted ==
    ASSUME RpcTypes, clients_ # <<>>, clients_' = Tail(clients_)
    PROVE  /\ Head(clients_) \in Client /\ Known' = Known \ {Head(clients_)} /\ clients_' \in Seq(Client)
           /\ \A m, n \in DOMAIN clients_' : clients_'[m] = clients_'[n] => m = n
<1>1. PICK s, r, i : s = clients_ /\ r = Tail(s) /\ i = Head(s)
  OBVIOUS
<1>2. s \in Seq(Client) /\ s # <<>> /\ clients_' = r
  BY <1>1 DEF RpcTypes
<1>3. /\ i \in Client /\ r \in Seq(Client) /\ Len(r) = Len(s) - 1 /\ Len(s) \in Nat /\ Len(s) # 0
      /\ i = s[1] /\ \A n \in 1 .. Len(r) : r[n] = s[n + 1]
  BY <1>1, <1>2, HeadTailProperties, EmptySeq, LenProperties
<1>4. DOMAIN s = 1 .. Len(s) /\ DOMAIN r = 1 .. Len(r) /\ Len(r) \in Nat
  BY <1>2, <1>3, LenProperties
<1>5. \A m, n \in DOMAIN s : s[m] = s[n] => m = n
  BY <1>1 DEF RpcTypes
<1>6. \A n \in DOMAIN r : n + 1 \in DOMAIN s /\ n \in Nat /\ n + 1 # 1 /\ r[n] = s[n + 1]
  BY <1>3, <1>4
<1>7. 1 \in DOMAIN s
  BY <1>3, <1>4
<1>8. \A m, n \in DOMAIN r : r[m] = r[n] => m = n
  <2> SUFFICES ASSUME NEW m \in DOMAIN r, NEW n \in DOMAIN r, r[m] = r[n] PROVE m = n
    OBVIOUS
  <2>1. m + 1 = n + 1
    BY <1>5, <1>6
  <2> QED BY <1>6, <2>1
<1>9. ASSUME NEW x PROVE x \in ToSet(r) <=> x \in ToSet(s) /\ x # i
  <2>1. ASSUME NEW n \in DOMAIN r, x = r[n] PROVE x \in ToSet(s) /\ x # i
    BY <1>3, <1>5, <1>6, <1>7, <2>1 DEF ToSet
  <2>2. ASSUME NEW m \in DOMAIN s, x = s[m], x # i PROVE x \in ToSet(r)
    <3>1. m \in Nat /\ m # 1 /\ m \in 1 .. Len(s)
      BY <1>3, <1>4, <2>2
    <3>2. m - 1 \in DOMAIN r /\ (m - 1) + 1 = m
      BY <1>3, <1>4, <3>1
    <3>3. r[m - 1] = x
      BY <1>6, <2>2, <3>2
    <3> QED BY <3>2, <3>3 DEF ToSet
  <2> QED BY <2>1, <2>2 DEF ToSet
<1> QED BY <1>1, <1>2, <1>3, <1>8, <1>9 DEF Known

LEMMA DeleteClientInv ==
    ASSUME XInv, DeleteClient
    PROVE  XInv'
<1> USE Numbers
<1>1. PICK i, v, d : i = Head(clients_) /\ v = Close(wire, client[i].fd) /\ d = NewClient
  OBVIOUS
<1>2. /\ clients_' = Tail(clients_) /\ clients_ # <<>> /\ client' = [client EXCEPT ![i] = d] /\ wire' = v
      /\ thread' = [t \in Caller |-> IF InUse(i) /\ thread[t].client = i THEN [thread[t] EXCEPT !.at = "freed"]
                                     ELSE thread[t]]
      /\ call' = call /\ call_mutex' = call_mutex /\ rpc_shutting_down_' = rpc_shutting_down_ /\ peer' = peer
  BY <1>1 DEF DeleteClient
<1>3. /\ i \in Client /\ Known' = Known \ {i} /\ clients_' \in Seq(Client)
      /\ \A m, n \in DOMAIN clients_' : clients_'[m] = clients_'[n] => m = n
  BY <1>1, <1>2, FirstDeleted DEF XInv
<1>4. wire' \in [Conn -> WireRecord] /\ LeftBy(wire', i)
  BY <1>1, <1>2, <1>3, ClosedWire
<1>5. /\ d \in ClientRecord /\ d.fd = None /\ d.state = "NO_CONNECTION" /\ d.watched = FALSE /\ d.in_use_ = FALSE
  BY <1>1, EmptySeq DEF NewClient, ClientRecord
<1>6. client'[i] = d /\ client' \in [Client -> ClientRecord] /\ \A j \in Client : j # i => client'[j] = client[j]
  BY <1>2, <1>3, <1>5 DEF XInv, RpcTypes
<1>7. ASSUME NEW t \in Caller
      PROVE  /\ thread'[t] \in ThreadRecord /\ thread'[t].call = thread[t].call /\ thread'[t].client = thread[t].client
             /\ thread'[t] = thread[t] \/ (thread'[t].at = "freed" /\ thread[t].client = i)
             /\ InUse(i) /\ thread[t].client = i => thread'[t].at = "freed"
  <2>1. thread[t] \in ThreadRecord
    BY DEF XInv, RpcTypes
  <2>2. PICK w : w = [thread[t] EXCEPT !.at = "freed"]
    OBVIOUS
  <2>3. w \in ThreadRecord /\ w.at = "freed" /\ w.call = thread[t].call /\ w.client = thread[t].client
    BY <2>1, <2>2 DEF ThreadRecord
  <2>4. thread'[t] = IF InUse(i) /\ thread[t].client = i THEN w ELSE thread[t]
    BY <1>2, <2>2
  <2> QED BY <2>1, <2>3, <2>4
<1>8. ASSUME NEW t \in Caller, thread'[t].at # "freed"
      PROVE  /\ thread'[t] = thread[t]
             /\ Active(t) => /\ thread[t].client # i /\ thread[t].client \in Client
                             /\ client'[thread[t].client] = client[thread[t].client]
  <2>1. thread'[t] = thread[t]
    BY <1>7, <1>8
  <2>2. Active(t) => thread[t].client \in Client /\ InUse(thread[t].client)
    BY WorksWith DEF XInv, CallersOK
  <2> QED BY <1>6, <1>7, <1>8, <2>1, <2>2
<1>9. \A t \in Caller : Active(t)' => Active(t) /\ thread'[t].at # "freed"
  BY <1>8 DEF Active
<1>10. RpcTypes'
  <2>1. \A f \in Conn : Len(wire'[f].up) <= Room /\ Len(wire'[f].down) <= Room
    BY <1>2, <1>4, LeftRequests
  <2>2. thread' \in [Caller -> ThreadRecord]
    BY <1>2, <1>7
  <2> QED BY <1>2, <1>3, <1>4, <1>6, <2>1, <2>2 DEF XInv, RpcTypes
<1>11. CallersOK'
  <2>1. \A t \in Caller : /\ ThreadAt(t, "idle")' => thread'[t] = Nowhere
                          /\ ThreadAt(t, "work")' \/ ThreadAt(t, "worked")' => call_mutex' = t
    BY <1>2, <1>8 DEF XInv, CallersOK, ThreadAt
  <2>2. ASSUME NEW t \in Caller, Active(t)'
        PROVE  /\ thread'[t].call \in DOMAIN call' /\ call'[thread'[t].call].result = "none"
               /\ thread'[t].client \in Known' /\ client'[thread'[t].client].in_use_
               /\ ~ThreadAt(t, "executed")' => call'[thread'[t].call].answer = None
    <3>1. Active(t) /\ thread'[t] = thread[t] /\ thread[t].client # i
          /\ client'[thread[t].client] = client[thread[t].client]
      BY <1>8, <1>9, <2>2
    <3>2. /\ thread[t].call \in DOMAIN call /\ InProgress(thread[t].call)
          /\ thread[t].client \in Known /\ InUse(thread[t].client)
          /\ ~ThreadAt(t, "executed") => call[thread[t].call].answer = None
      BY <3>1 DEF XInv, CallersOK
    <3> QED BY <1>2, <1>3, <3>1, <3>2 DEF InProgress, InUse, ThreadAt
  <2>3. \A t, u \in Caller : Active(t)' /\ Active(u)' /\ t # u =>
          thread'[t].client # thread'[u].client /\ thread'[t].call # thread'[u].call
    BY <1>7, <1>9 DEF XInv, CallersOK
  <2>4. ASSUME NEW j \in Known', client'[j].in_use_ PROVE \E t \in Caller : Active(t)' /\ thread'[t].client = j
    <3>1. j \in Known /\ j # i
      BY <1>3, <2>4
    <3>2. j \in Client
      BY <3>1, ElementOfSeq DEF Known, XInv, RpcTypes, ToSet
    <3>3. InUse(j)
      BY <1>6, <2>4, <3>1, <3>2 DEF InUse
    <3>4. PICK t \in Caller : Active(t) /\ thread[t].client = j
      BY <3>1, <3>3 DEF XInv, CallersOK
    <3>5. thread'[t] = thread[t]
      BY <1>7, <3>1, <3>4
    <3> QED BY <3>4, <3>5 DEF Active
  <2>5. \A j \in Client \ Known' : client'[j] = NewClient
    BY <1>1, <1>3, <1>6 DEF XInv, CallersOK
  <2> QED BY <2>1, <2>2, <2>3, <2>4, <2>5 DEF CallersOK, Active, ThreadAt, InProgress, InUse
<1>12. Answers'
  BY <1>2 DEF XInv, Answers
<1>13. /\ Requests'
       /\ \A f \in Conn : (wire'[f].server \in {"queued", "open"} => Live(f)) /\ wire'[f].up = wire[f].up
  BY <1>2, <1>4, LeftRequests
<1>14. \A j \in Client : j # i /\ client[j].fd # None => wire'[client[j].fd] = wire[client[j].fd]
  BY <1>4 DEF LeftBy
<1>15. ClientsOK'
  <2>1. ASSUME NEW j \in Client, NEW c, c = client'[j]
        PROVE  /\ c.fd = None <=> c.state = "NO_CONNECTION"
               /\ c.fd # None => wire'[c.fd].client /\ wire'[c.fd].server # "none"
               /\ c.watched => c.state \in {"WRITE_REQUEST", "READ"}
               /\ c.state = "IDLE" =>
                     /\ wire'[c.fd].server \in {"open", "closed"} /\ wire'[c.fd].down = <<>>
                     /\ wire'[c.fd].server \in {"queued", "open"} => wire'[c.fd].up = <<>> /\ peer'[c.fd] = NewPeer
    <3>1. CASE j = i
      BY <1>5, <1>6, <2>1, <3>1
    <3>2. CASE j # i
      <4>1. c = client[j] /\ (c.fd # None => wire'[c.fd] = wire[c.fd])
        BY <1>6, <1>14, <2>1, <3>2
      <4> QED BY <1>2, <4>1 DEF XInv, ClientsOK, Live
    <3> QED BY <3>1, <3>2
  <2>2. \A j, l \in Client : j # l /\ client'[j].fd = client'[l].fd => client'[j].fd = None
    BY <1>5, <1>6 DEF XInv, ClientsOK
  <2> QED BY <2>1, <2>2 DEF ClientsOK, Live
<1>16. Exchange'
  <2>1. ASSUME NEW t \in Caller, ThreadAt(t, "work")', NEW c, c = client'[thread'[t].client], NEW k, k = thread'[t].call
        PROVE  Exchanging(c, k, wire'[c.fd], peer'[c.fd], call'[k].executed)
    <3>1. Active(t) /\ thread'[t] = thread[t] /\ thread[t].client # i /\ ThreadAt(t, "work") /\ thread[t].client \in Client
          /\ c = client[thread[t].client] /\ k = thread[t].call
      BY <1>8, <1>9, <2>1 DEF Active, ThreadAt
    <3>2. Exchanging(c, k, wire[c.fd], peer[c.fd], call[k].executed)
      BY <3>1 DEF XInv, Exchange
    <3>3. CASE c.fd = None
      <4>1. c.state = "NO_CONNECTION" /\ ~c.watched
        BY <3>1, <3>3 DEF XInv, ClientsOK
      <4> QED BY <4>1 DEF Exchanging
    <3>4. CASE c.fd # None
      <4>1. wire'[c.fd] = wire[c.fd]
        BY <1>14, <3>1, <3>4
      <4> QED BY <1>2, <3>2, <4>1
    <3> QED BY <3>3, <3>4
  <2>2. ASSUME NEW t \in Caller, ThreadAt(t, "worked")' PROVE client'[thread'[t].client].watched
    <3>1. Active(t) /\ thread'[t] = thread[t] /\ ThreadAt(t, "worked") /\ client'[thread[t].client] = client[thread[t].client]
      BY <1>8, <1>9, <2>2 DEF Active, ThreadAt
    <3> QED BY <3>1 DEF XInv, Exchange
  <2> QED BY <2>1, <2>2 DEF Exchange, ThreadAt
<1>17. Executions'
  <2>1. ASSUME NEW k, NEW f \in Conn
        PROVE  /\ Live(f)' => Live(f)
               /\ Carries(k, f)' => Carries(k, f)
               /\ \A t \in Caller : Sends(t, k, f)' => Sends(t, k, f)
    <3>1. ASSUME NEW t \in Caller, Sends(t, k, f)' PROVE Sends(t, k, f)
      <4>1. ThreadAt(t, "work")'
        BY <3>1 DEF Sends
      <4>2. thread'[t] = thread[t] /\ client'[thread[t].client] = client[thread[t].client]
        BY <1>8, <1>9, <4>1 DEF Active, ThreadAt
      <4> QED BY <3>1, <4>2 DEF Sends, ThreadAt
    <3> QED BY <1>2, <1>13, <3>1 DEF Live, Carries
  <2>2. \A k : Carrying(k)' \subseteq Carrying(k)
    BY <2>1 DEF Carrying
  <2>3. ASSUME NEW t \in Caller, BrokenOff(t)' PROVE BrokenOff(t) /\ thread'[t].call = thread[t].call
    <3>1. thread'[t].at # "freed" /\ Active(t)'
      BY <2>3 DEF BrokenOff, Active, ThreadAt
    <3>2. /\ Active(t) /\ thread'[t] = thread[t] /\ thread[t].client # i /\ thread[t].client \in Client
          /\ client'[thread[t].client] = client[thread[t].client]
      BY <1>8, <1>9, <3>1
    <3>3. CASE ThreadAt(t, "work")
      <4>1. PICK c : c = client[thread[t].client]
        OBVIOUS
      <4>2. IF c.watched THEN wire'[c.fd].server = "closed" ELSE c.state # "IDLE"
        BY <2>3, <3>2, <3>3, <4>1 DEF BrokenOff, ThreadAt
      <4>3. c.watched => c.fd # None
        BY <3>2, <4>1 DEF XInv, ClientsOK
      <4>4. c.watched => wire'[c.fd] = wire[c.fd]
        BY <1>14, <3>2, <4>1, <4>3
      <4> QED BY <3>2, <3>3, <4>1, <4>2, <4>4 DEF BrokenOff
    <3>4. CASE ~ThreadAt(t, "work")
      BY <1>2, <2>3, <3>2, <3>4 DEF BrokenOff, ThreadAt
    <3> QED BY <3>2, <3>3, <3>4
  <2> QED BY <1>2, <2>2, <2>3, HasCall, Executed_, CallsAre DEF XInv, CallRecord
<1> QED BY <1>10, <1>11, <1>12, <1>13, <1>15, <1>16, <1>17 DEF XInv

-----------------------------------------------------------------------------
(* AnsweredOnce, of every reachable state.                                     *)

LEMMA RpcInvInit == RpcInit => XInv
<1> SUFFICES ASSUME RpcInit PROVE XInv
  OBVIOUS
<1> USE Numbers
<1>1. /\ <<>> \in Seq(CallRecord) /\ <<>> \in Seq(Client) /\ <<>> \in Seq(Unit) /\ Len(<<>>) = 0
      /\ DOMAIN call = {} /\ DOMAIN clients_ = {} /\ call = <<>> /\ clients_ = <<>>
  BY EmptySeq DEF RpcInit
<1>2. /\ NewClient \in ClientRecord /\ Unconnected \in WireRecord /\ NewPeer \in PeerRecord /\ Nowhere \in ThreadRecord
  BY <1>1 DEF NewClient, ClientRecord, Unconnected, WireRecord, NewPeer, PeerRecord, Nowhere, ThreadRecord
<1>3. /\ \A t \in Caller : thread[t] = Nowhere
      /\ \A i \in Client : client[i] = NewClient
      /\ \A f \in Conn : wire[f] = Unconnected /\ peer[f] = NewPeer
  BY DEF RpcInit
<1>4. RpcTypes
  <2>1. \A f \in Conn : Len(wire[f].up) <= Room /\ Len(wire[f].down) <= Room
    <3>1. Unconnected.up = <<>> /\ Unconnected.down = <<>> /\ 0 <= Room
      BY DEF Unconnected
    <3> QED BY <1>1, <1>3, <3>1
  <2>2. /\ thread \in [Caller -> ThreadRecord] /\ client \in [Client -> ClientRecord]
        /\ wire \in [Conn -> WireRecord] /\ peer \in [Conn -> PeerRecord]
    BY <1>2 DEF RpcInit
  <2>3. call_mutex \in Caller \cup {None} /\ rpc_shutting_down_ \in BOOLEAN
    BY DEF RpcInit
  <2> QED BY <1>1, <2>1, <2>2, <2>3 DEF RpcTypes
<1>5. \A t \in Caller : ThreadAt(t, "idle") /\ ~Active(t)
  BY <1>3 DEF ThreadAt, Active, Nowhere
<1>6. CallersOK
  <2>1. \A i \in Client : ~InUse(i)
    BY <1>3 DEF InUse, NewClient
  <2>2. Known = {}
    BY <1>1 DEF Known, ToSet
  <2> QED BY <1>3, <1>5, <2>1, <2>2 DEF CallersOK, ThreadAt
<1>7. Answers
  BY <1>1 DEF Answers
<1>8. ClientsOK
  BY <1>3 DEF ClientsOK, NewClient
<1>9. Requests
  <2>1. Unconnected.reset = FALSE /\ Unconnected.server = "none" /\ ~(NewPeer.left # <<>>)
    BY DEF Unconnected, NewPeer
  <2>2. \A f \in Conn : /\ wire[f].reset = FALSE /\ wire[f].server = "none" /\ peer[f] = NewPeer
                        /\ ~(peer[f].left # <<>>)
    BY <1>3, <2>1
  <2> QED BY <2>2 DEF Requests, Live
<1>10. Exchange
  BY <1>5 DEF Exchange, ThreadAt
<1>11. Executions
  <2>1. \A t \in Caller : ~BrokenOff(t)
    BY <1>5 DEF BrokenOff, ThreadAt
  <2> QED BY <1>1, <2>1 DEF Executions
<1> QED BY <1>4, <1>6, <1>7, <1>8, <1>9, <1>10, <1>11 DEF XInv

LEMMA RpcInvStep ==
    ASSUME XInv, [RpcNext]_rpcVars
    PROVE  XInv'
<1>1. CASE UNCHANGED rpcVars
  <2> USE <1>1 DEF rpcVars, XInv
  <2>1. RpcTypes'
    BY DEF RpcTypes
  <2>2. CallersOK'
    BY DEF CallersOK, Active, Known, InUse, InProgress, ThreadAt
  <2>3. Answers' /\ ClientsOK' /\ Requests'
    BY DEF Answers, ClientsOK, Requests, Live
  <2>4. Exchange'
    BY DEF Exchange, ThreadAt
  <2>5. Executions'
    <3>1. \A t \in Caller : BrokenOff(t)' => BrokenOff(t)
      BY DEF BrokenOff, ThreadAt
    <3> QED BY <3>1, HasCall, Same, Executed_, CallsAre DEF CallRecord
  <2> QED BY <2>1, <2>2, <2>3, <2>4, <2>5
<1>2. ASSUME NEW t \in Caller, NEW wait \in BOOLEAN, GetXMLRPCClient(t, wait) PROVE XInv'
  BY <1>2, GetXMLRPCClientInv
<1>3. ASSUME NEW t \in Caller, ThreadStep(t) PROVE XInv'
  BY <1>3, ExecuteInv, WorkInv, WorkedInv, ExecutedInv, SleepInv DEF ThreadStep
<1>4. ASSUME NEW t \in Caller, Interrupt(t) PROVE XInv'
  BY <1>4, InterruptInv
<1>5. CASE ManagerShutdown
  BY <1>5, ManagerShutdownInv
<1>6. CASE DeleteClient
  BY <1>6, DeleteClientInv
<1>7. ASSUME NEW f \in Conn, AcceptConnection(f) \/ HandleEvent(f) PROVE XInv'
  BY <1>7, AcceptConnectionInv, HandleEventInv
<1>8. CASE ServerEnds
  BY <1>8, ServerEndsInv
<1>9. CASE ServerStarts
  BY <1>9, ServerStartsInv
<1> QED BY <1>1, <1>2, <1>3, <1>4, <1>5, <1>6, <1>7, <1>8, <1>9 DEF RpcNext

LEMMA InvAnsweredOnce ==
    ASSUME XInv
    PROVE  AnsweredOnce
<1> USE Numbers
<1>1. Known \subseteq Client
  BY ElementOfSeq DEF Known, XInv, RpcTypes, ToSet
<1>2. RpcTypeOK
  <2>1. \A i \in Client : client[i] \in ClientRecord
    BY DEF XInv, RpcTypes
  <2>2. \A i \in Client : /\ client[i].state \in {"NO_CONNECTION", "WRITE_REQUEST", "READ", "IDLE"}
                          /\ client[i].fd \in Conn \cup {None}
    BY <2>1 DEF ClientRecord
  <2> QED BY <1>1, <2>2 DEF XInv, RpcTypes, RpcTypeOK, ThreadRecord, Known
<1>3. ClientsApart
  <2>1. ASSUME NEW i \in Known, NEW T, T = {t \in Caller : thread[t].client = i /\ ~ThreadAt(t, "freed")}
        PROVE  InUse(i) <=> Cardinality(T) = 1
    <3>1. i \in Client /\ i # None
      BY <1>1
    <3>2. \A t \in Caller : t \in T <=> Active(t) /\ thread[t].client = i
      <4>1. \A t \in Caller : ThreadAt(t, "idle") => thread[t].client = None
        BY DEF XInv, CallersOK, Nowhere
      <4> QED BY <2>1, <3>1, <4>1 DEF Active, ThreadAt
    <3>3. ASSUME InUse(i) PROVE Cardinality(T) = 1
      <4>1. PICK t \in Caller : Active(t) /\ thread[t].client = i
        BY <3>3 DEF XInv, CallersOK
      <4>2. T = {t}
        BY <2>1, <3>2, <4>1 DEF XInv, CallersOK
      <4> QED BY <4>2, FS_Singleton
    <3>4. ASSUME ~InUse(i) PROVE Cardinality(T) # 1
      <4>1. T = {}
        BY <2>1, <3>2, <3>4 DEF XInv, CallersOK
      <4> QED BY <4>1, FS_EmptySet
    <3> QED BY <3>3, <3>4
  <2> QED BY <2>1 DEF XInv, ClientsOK, ClientsApart, Known
<1>4. ASSUME NEW k \in DOMAIN call PROVE call[k].executed <= 1 + call[k].disturbed
  <2>1. PICK x, y, n : x = call[k].executed /\ y = call[k].disturbed /\ n = Cardinality(Carrying(k))
    OBVIOUS
  <2>2. x \in Nat /\ y \in Nat
    BY <2>1, CallsAre DEF XInv, CallRecord
  <2>3. n \in Nat /\ x + n <= 1 + y
    BY <2>1, FS_CardinalityType DEF XInv, Executions
  <2>4. x <= 1 + y
    BY <2>2, <2>3
  <2> QED BY <2>1, <2>4
<1> QED BY <1>2, <1>3, <1>4 DEF XInv, Answers, AnsweredOnce

\* For any number of threads, clients, connections and calls, and whatever ends, is interrupted
\* or shut down meanwhile: a client of XMLRPCManager is used by one thread at a time, on a
\* connection of its own; a call of master::execute() gets no answer but the one to its own
\* request, which was executed then, and more than once only as often as the call was disturbed;
\* and a call that waits for the master fails only when the node shuts down.
THEOREM CallsAnsweredOnce == RpcSpec => []AnsweredOnce
<1>1. XInv /\ [RpcNext]_rpcVars => XInv'
  BY RpcInvStep
<1>2. XInv => AnsweredOnce
  BY InvAnsweredOnce
<1> QED BY <1>1, <1>2, RpcInvInit, PTL DEF RpcSpec
=============================================================================
