---------------------------- MODULE BoundedFifo ----------------------------
(* The queue discipline two parts of roscpp share: a TransportSubscriberLink's *)
(* outbox (transport_subscriber_link.cpp) and a SubscriptionQueue              *)
(* (subscription_queue.cpp) throw away their oldest message to make room for   *)
(* a new one.                                                                  *)
EXTENDS Naturals, Sequences

\* A size of zero, and a negative one, mean that the queue is unbounded.
fullNoLock(q, size) == size > 0 /\ Len(q) >= size

Pushed(q, m, size) == Append(IF fullNoLock(q, size) THEN Tail(q) ELSE q, m)
=============================================================================
