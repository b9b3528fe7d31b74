---------------------------- MODULE Subscription ----------------------------
(* The receiving end of a topic (subscription.cpp, subscription_queue.cpp): a  *)
(* message that arrives on a link is pushed to the SubscriptionQueue of the    *)
(* callback, which is scheduled in the CallbackQueue once per message it       *)
(* gained; spinner threads take an entry, then the oldest message.             *)
(* CallbackQueue.tla has the callback queue in detail; here an entry of it is  *)
(* a count and removeByID a single step.  Each link leads to a subscription    *)
(* with one callback, of a type that matches the publisher's.                  *)
EXTENDS Naturals, FiniteSets, BoundedFifo, TopicLinks

CONSTANTS
    Thread,       \* the threads of the subscriber's spinner
    QueueSize     \* queue_size given to subscribe()

ASSUME SubscriptionAssumption == QueueSize \in Nat /\ IsFiniteSet(Thread)

VARIABLES
    queue,        \* SubscriptionQueue::queue_ of each link's subscription
    scheduled,    \* how often it is in the callback queue
    spinning,     \* what each spinner thread is at
    got,          \* the last message whose callback was called
    subscribed    \* "yes", "removing" and "cleared" within removeCallback, "no"

svars == <<queue, scheduled, spinning, got, subscribed>>

Idle == [at |-> "idle"]
At(where, l) == [at |-> where, link |-> l]
Doing == {Idle} \cup {At(w, l) : w \in {"taken", "called"}, l \in Link}
ThreadsAt(where, l) == {t \in Thread : spinning[t] = At(where, l)}

SubscriptionTypeOK ==
    /\ queue \in [Link -> Seq(Nat \ {0})]
    /\ scheduled \in [Link -> Nat]
    /\ spinning \in [Thread -> Doing]
    /\ got \in [Link -> Nat]
    /\ subscribed \in [Link -> {"yes", "removing", "cleared", "no"}]
    /\ \A l \in Link : QueueSize > 0 => Len(queue[l]) <= QueueSize

SubscriptionInit ==
    /\ queue = [l \in Link |-> << >>]
    /\ scheduled = [l \in Link |-> 0]
    /\ spinning = [t \in Thread |-> Idle]
    /\ got = [l \in Link |-> 0]
    /\ subscribed = [l \in Link |-> "yes"]

-----------------------------------------------------------------------------
\* Message m arrives on the links ls.  A queue that was full already has an
\* entry for each of its messages.  handleMessage holds callbacks_mutex_, which
\* keeps other messages and removeCallback out until the entry is added.
Schedule(ls) ==
    [l \in Link |-> IF l \in ls /\ ~fullNoLock(queue[l], QueueSize)
                    THEN scheduled[l] + 1 ELSE scheduled[l]]

handleMessage(ls, m) ==
    LET hearing == {l \in ls : subscribed[l] = "yes"}
    IN /\ queue' = [l \in Link |-> IF l \in hearing THEN Pushed(queue[l], m, QueueSize)
                                   ELSE queue[l]]
       /\ scheduled' = Schedule(hearing)
       /\ UNCHANGED <<spinning, got, subscribed>>

-----------------------------------------------------------------------------
\* A spinner thread takes an entry out of the callback queue ...
TakeEntry(t, l) ==
    /\ spinning[t] = Idle
    /\ scheduled[l] > 0
    /\ scheduled' = [scheduled EXCEPT ![l] = @ - 1]
    /\ spinning' = [spinning EXCEPT ![t] = At("taken", l)]
    /\ UNCHANGED <<queue, got, subscribed>>

LoseEntry(t, l) ==
    /\ t \in ThreadsAt("taken", l)
    /\ ThreadsAt("called", l) # {}
    /\ spinning' = [spinning EXCEPT ![t] = Idle]
    /\ UNCHANGED <<queue, scheduled, got, subscribed>>

\* ... and calls it: another thread is in the callback, so it is put back,
TryAgain(t, l) ==
    /\ t \in ThreadsAt("taken", l)
    /\ ThreadsAt("called", l) # {}
    /\ scheduled' = [scheduled EXCEPT ![l] = @ + 1]
    /\ spinning' = [spinning EXCEPT ![t] = Idle]
    /\ UNCHANGED <<queue, got, subscribed>>

\* or the queue was cleared,
Invalid(t, l) ==
    /\ t \in ThreadsAt("taken", l)
    /\ ThreadsAt("called", l) = {}
    /\ queue[l] = << >>
    /\ spinning' = [spinning EXCEPT ![t] = Idle]
    /\ UNCHANGED <<queue, scheduled, got, subscribed>>

\* or the oldest message goes to the callback.
CallOldest(t, l) ==
    /\ t \in ThreadsAt("taken", l)
    /\ ThreadsAt("called", l) = {}
    /\ queue[l] # << >>
    /\ got' = [got EXCEPT ![l] = Head(queue[l])]
    /\ queue' = [queue EXCEPT ![l] = Tail(@)]
    /\ spinning' = [spinning EXCEPT ![t] = At("called", l)]
    /\ UNCHANGED <<scheduled, subscribed>>

Return(t, l) ==
    /\ t \in ThreadsAt("called", l)
    /\ spinning' = [spinning EXCEPT ![t] = Idle]
    /\ UNCHANGED <<queue, scheduled, got, subscribed>>

\* removeCallback, on a thread that is not in the callback: the callback is no
\* longer looked for; its queue is cleared, once no thread holds
\* callback_mutex_; its entries leave the callback queue, once none is called.
RemoveCallback(l) ==
    /\ subscribed[l] = "yes"
    /\ subscribed' = [subscribed EXCEPT ![l] = "removing"]
    /\ UNCHANGED <<queue, scheduled, spinning, got>>

ClearQueue(l) ==
    /\ subscribed[l] = "removing"
    /\ ThreadsAt("called", l) = {}
    /\ queue' = [queue EXCEPT ![l] = << >>]
    /\ subscribed' = [subscribed EXCEPT ![l] = "cleared"]
    /\ UNCHANGED <<scheduled, spinning, got>>

RemoveEntries(l) ==
    /\ subscribed[l] = "cleared"
    /\ ThreadsAt("taken", l) \cup ThreadsAt("called", l) = {}
    /\ scheduled' = [scheduled EXCEPT ![l] = 0]
    /\ subscribed' = [subscribed EXCEPT ![l] = "no"]
    /\ UNCHANGED <<queue, spinning, got>>

Spin(t) ==
    \E l \in Link : \/ TakeEntry(t, l)
                    \/ TryAgain(t, l)
                    \/ Invalid(t, l)
                    \/ CallOldest(t, l)
                    \/ Return(t, l)

removeCallback(l) == RemoveCallback(l) \/ ClearQueue(l) \/ RemoveEntries(l)

-----------------------------------------------------------------------------
\* No message is left in a queue that no entry of the callback queue stands
\* for: subscription.cpp:648 does not schedule a message that pushed another
\* one out, so a miscount would leave it there until the next one arrives.
EveryMessageScheduled ==
    \A l \in Link : Len(queue[l]) <= scheduled[l] + Cardinality(ThreadsAt("taken", l))
=============================================================================
