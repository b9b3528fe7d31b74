---------------------------- MODULE TopicChannel ----------------------------
(* What a topic promises its subscribers (subscribe_options.h:125: "callbacks  *)
(* are guaranteed to arrive in-order"), whatever queues lie between publish()  *)
(* and the callback.  Messages are numbered in the order of their publication. *)
(* On each link they may be lost, but they are never repeated or overtaken,    *)
(* and unless the link is cut the newest one is not lost.                      *)
EXTENDS Naturals, TopicLinks

VARIABLES
    newest,   \* the last message the publisher gave to the link, 0 at first
    pending,  \* the messages on their way
    got,      \* the last message whose callback was called, 0 at first
    cut       \* the connection is closed, or nobody is subscribed any more

cvars == <<newest, pending, got, cut>>

ChannelInit ==
    /\ newest = [l \in Link |-> 0]
    /\ pending = [l \in Link |-> {}]
    /\ got = [l \in Link |-> 0]
    /\ cut \in [Link -> BOOLEAN]

Same(l) ==
    /\ newest'[l] = newest[l] /\ pending'[l] = pending[l]
    /\ got'[l] = got[l] /\ cut'[l] = cut[l]

Send(l) ==
    /\ newest'[l] \in Nat /\ newest'[l] > newest[l]
    /\ pending'[l] \subseteq pending[l] \cup {newest'[l]}
    /\ cut[l] \/ newest'[l] \in pending'[l]
    /\ got'[l] = got[l] /\ cut'[l] = cut[l]

Lose(l) ==
    /\ pending'[l] \subseteq pending[l]
    /\ cut[l] \/ newest[l] \notin pending[l] \/ newest[l] \in pending'[l]
    /\ newest'[l] = newest[l] /\ got'[l] = got[l] /\ cut'[l] = cut[l]

Deliver(l) ==
    /\ got'[l] \in pending[l]
    /\ \A m \in pending[l] : got'[l] <= m
    /\ pending'[l] = pending[l] \ {got'[l]}
    /\ newest'[l] = newest[l] /\ cut'[l] = cut[l]

\* The link is opened, or cut and what was on its way lost.
Switch(l) ==
    /\ IF cut'[l] THEN pending'[l] \subseteq pending[l] ELSE pending'[l] = pending[l]
    /\ newest'[l] = newest[l] /\ got'[l] = got[l] /\ cut'[l] \in BOOLEAN

LinkStep(l) == Send(l) \/ Lose(l) \/ Deliver(l) \/ Switch(l) \/ Same(l)

\* A publication gives a message to several links in one step.
ChannelNext ==
    /\ newest' = [l \in Link |-> newest'[l]] /\ pending' = [l \in Link |-> pending'[l]]
    /\ got' = [l \in Link |-> got'[l]] /\ cut' = [l \in Link |-> cut'[l]]
    /\ \A l \in Link : LinkStep(l)

ChannelSpec == ChannelInit /\ [][ChannelNext]_cvars

\* The order of the callbacks is that of publication, and none is repeated.
CalledInOrder == [][\A l \in Link : got'[l] = got[l] \/ got'[l] > got[l]]_cvars

\* The newest message of a link that is not cut is on its way or was called.
NewestKept(l) == newest[l] \in pending[l] \/ got[l] = newest[l]
KeepsNewest(l) == NewestKept(l) /\ ~cut[l] /\ ~cut'[l] => NewestKept(l)'
NeverLosesNewest == [][\A l \in Link : KeepsNewest(l)]_cvars
=============================================================================
