--------------------------- MODULE MCTopicManager ---------------------------
(* TopicManager with one topic and two handles of each kind.  Or, in its place,  *)
(* the call of the master on which it waits while it holds a mutex: of one       *)
(* thread that calls again and again, and of two while the node may be shut down. *)
EXTENDS TopicManager, XmlRpc

CONSTANTS t1, t2, p1, p2, s1, s2, A, X, Y

\* Everything is about one topic.  The types agree, or one Subscriber's differs,
\* or one takes any type.
OneTopic == [h \in Handle |-> A]
OneType == {[h \in Handle |-> X]}
Types == OneType \cup {[h \in Handle |-> IF h = s2 THEN type ELSE X] : type \in {Y, AnyMd5sum}}

\* The calls that may be in progress together without harm.  Not in the list:
\* unadvertise() with itself, advertise() or publish(), unsubscribe() with
\* subscribe(), and shutdown() with what takes a mutex and comes back for it.
Harmless ==
    {{"advertise"}, {"publish"}, {"subscribe"}, {"unsubscribe"}, {"shutdown"},
     {"advertise", "publish"}, {"advertise", "subscribe"}, {"advertise", "unsubscribe"},
     {"unadvertise", "subscribe"}, {"unadvertise", "unsubscribe"},
     {"publish", "subscribe"}, {"publish", "unsubscribe"}, {"publish", "shutdown"},
     {"unsubscribe", "shutdown"}}

Again == [callers |-> {1}, calls |-> 3, faults |-> 2, shutdown |-> FALSE]
AtOnce == [callers |-> {1, 2}, calls |-> 2, faults |-> 1, shutdown |-> TRUE]
MCBounds == {Again, AtOnce}

\* Which of the two takes its steps; the other stays as it is.  The threads that call
\* are alike, so the first call is the first one's.
VARIABLE rpc
MCInit == Init /\ RpcInit /\ rpc \in BOOLEAN
          /\ (rpc => md5sum \in OneType) /\ (~rpc => rpc_bound = Again)
MCNext ==
    /\ rpc' = rpc
    /\ \/ ~rpc /\ Next /\ UNCHANGED rpcVars
       \/ rpc /\ RpcNext /\ (call = <<>> => thread'[2] = thread[2]) /\ UNCHANGED vars
MCSpec == MCInit /\ [][MCNext]_<<vars, rpcVars, rpc>> /\ Fairness /\ RpcFairness
=============================================================================
