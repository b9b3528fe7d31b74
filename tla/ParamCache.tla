----------------------------- MODULE ParamCache -----------------------------
(* The cache of parameters (param.cpp): what a node keeps of the parameters it  *)
(* has asked for with getCached(), and the parameter server that tells it of    *)
(* changes.  Calls of the server are master::execute(), which may fail, or fail *)
(* after the server has done what it was asked.                                 *)
(*                                                                              *)
(* The value of a parameter is a function of the leaves below it, so that a     *)
(* namespace and what is in it can be told to agree; a parameter that does not  *)
(* exist has NoValue at every leaf.                                             *)
EXTENDS Integers, Sequences, SequencesExt, FiniteSets

CONSTANTS
    Thread, Leaf, Namespace,
    Under,                              \* the leaves of each namespace
    Root,                               \* the namespace "/"
    Value, NoValue, Nobody,
    Bounds                  \* what may happen: records of the value each parameter has
                            \* at first, whether the caller's variable may have one, the
                            \* keys that are used, and the numbers of calls, of changes
                            \* by other nodes and of calls of the server that fail

\* Names form a tree: of two namespaces with a leaf in common one is in the other.
ASSUME KeysAssumption ==
    /\ IsFiniteSet(Leaf) /\ IsFiniteSet(Namespace)
    /\ Under \in [Namespace -> SUBSET Leaf]
    /\ \A m, n \in Namespace : \/ Under[m] \cap Under[n] = {}
                              \/ Under[m] \subseteq Under[n] \/ Under[n] \subseteq Under[m]
    /\ Leaf \cap Namespace = {}
    /\ Root \in Namespace /\ Under[Root] = Leaf
    /\ NoValue \notin Value
    /\ Nobody \notin Thread
    /\ \A b \in Bounds : b.first \in Value \union {NoValue}

VARIABLES
    server, subscribers,    \* the parameter server: its tree, and what this node has
                            \* subscribed to
    updates,                \* the paramUpdate calls on their way, in their order
    g_params, g_subscribed_params,
    g_shutting_down,        \* (of init.cpp) calls of the server end when it is set
    mutex,                  \* who holds g_params_mutex
    call,                   \* the call each thread is in
    overtaken,              \* history: the threads whose answer from the server is not
                            \* news any more, or was none
    missed,                 \* history: the parameters whose value such a thread cached,
                            \* or that was told before the node subscribed to them, and
                            \* the root when news has come of something below it
    bound, begun, changes, failures

paramVars == <<server, subscribers, updates, g_params, g_subscribed_params, mutex, call,
               overtaken, missed, bound, begun, changes, failures>>

Key == Leaf \union Namespace
LeavesOf(k) == IF k \in Leaf THEN {k} ELSE Under[k]
None(k) == [l \in LeavesOf(k) |-> NoValue]
ValuesOf(k) == [LeavesOf(k) -> Value] \union {None(k)}
ValueOf(k) == [l \in LeavesOf(k) |-> server[l]]
ParentsOf(k) == {n \in Namespace \ {k} : LeavesOf(k) \subseteq Under[n]}
ChildrenOf(k) == {c \in Key \ {k} : k \in ParentsOf(c)}

Idle == [op |-> "none"]
Reading(k) == [LeavesOf(k) -> Value \union {NoValue}]
Message == [key : Key, value : UNION {Reading(k) : k \in Key}, known : SUBSET Key]
-----------------------------------------------------------------------------
(* The server.  A change of k is told to a node that subscribes to k or to      *)
(* something above it, as a change of k, and to one that subscribes to          *)
(* something below k, as a change of that.  (`known' is history: what the node   *)
(* had subscribed to then.)                                                     *)
News(k, value) ==
    LET above == IF subscribers \cap ({k} \union ParentsOf(k)) # {}
                   THEN {[key |-> k, value |-> value, known |-> subscribers]}
                   ELSE {}
        below == {[key |-> c, value |-> [l \in LeavesOf(c) |-> value[l]],
                   known |-> subscribers] : c \in ChildrenOf(k) \cap subscribers}
    IN  SetToSeq(above \union below)

ServerSets(k, value) ==
    /\ server' = [l \in Leaf |-> IF l \in LeavesOf(k) THEN value[l] ELSE server[l]]
    /\ updates' = updates \o News(k, value)

\* Another node sets or deletes a parameter.
OtherNode(k, value) ==
    /\ changes < bound.changes
    /\ changes' = changes + 1
    /\ value # ValueOf(k)
    /\ ServerSets(k, value)
    /\ UNCHANGED <<bound, subscribers, g_params, g_subscribed_params, mutex, call,
                   overtaken, missed, begun, failures>>

Fails ==
    \/ failures < bound.failures /\ failures' = failures + 1
    \/ g_shutting_down /\ UNCHANGED failures
-----------------------------------------------------------------------------
(* What the calls do to the cache.                                              *)
Cached == DOMAIN g_params
Keep(k, value) == [c \in Cached \union {k} |-> IF c = k THEN value ELSE g_params[c]]
Without(params, keys) == [c \in DOMAIN params \ keys |-> params[c]]

\* The loop over the namespaces around k ends at the root, before it is looked at.
Around(k) == ParentsOf(k) \ {Root}

\* Mutant: only the parameter itself is looked at.
InvalidateNoParent(params, k) == params

\* Erase what is cached of the namespaces around k.
InvalidateParentParams(params, k) == Without(params, Around(k) \cap g_subscribed_params)

\* set() and update() end alike.
Learn(k, value) ==
    LET kept == IF k \in g_subscribed_params THEN Keep(k, value) ELSE g_params
    IN  g_params' = InvalidateParentParams(kept, k)

\* The fetches under way that a change of k makes old, and the cached values it renews.
Overtakes(k) ==
    overtaken' = overtaken \union
        {t \in Thread : /\ call[t].op = "getCached" /\ call[t].at = "fetched"
                        /\ call[t].key \in {k} \union ParentsOf(k)}
Renewed(k) == ({k} \union Around(k)) \cap g_subscribed_params

At(t, op, at) == call[t].op = op /\ call[t].at = at
GoTo(t, at) == call' = [call EXCEPT ![t].at = at]
Return(t) == call' = [call EXCEPT ![t] = Idle]
Lock(t) == mutex = Nobody /\ mutex' = t
Unlock(t) == mutex = t /\ mutex' = Nobody
Begin(t, c) ==
    /\ call[t] = Idle
    /\ begun < bound.calls
    /\ begun' = begun + 1
    /\ call' = [call EXCEPT ![t] = c]
-----------------------------------------------------------------------------
(* set(): the mutex is held until the server has answered.                      *)
Set(t, k, value) ==
    /\ Begin(t, [op |-> "set", key |-> k, value |-> value, at |-> "ask"])
    /\ Lock(t)
    /\ UNCHANGED <<bound, server, subscribers, updates, g_params, g_subscribed_params,
                   overtaken, missed, changes, failures>>

SetOnServer(t) ==
    /\ At(t, "set", "ask")
    /\ ServerSets(call[t].key, call[t].value)
    /\ \/ GoTo(t, "told") /\ UNCHANGED <<failures, mutex>>
       \/ ~g_shutting_down /\ Fails /\ UNCHANGED <<call, mutex>>   \* the answer is lost:
       \/ g_shutting_down /\ Return(t) /\ Unlock(t)               \* asked again, or not
          /\ UNCHANGED failures
    /\ UNCHANGED <<bound, subscribers, g_params, g_subscribed_params, overtaken, missed,
                   begun, changes>>

\* The server refuses.
SetRefused(t) ==
    /\ At(t, "set", "ask")
    /\ Fails
    /\ Unlock(t)
    /\ Return(t)
    /\ UNCHANGED <<bound, server, subscribers, updates, g_params, g_subscribed_params,
                   overtaken, missed, begun, changes>>

\* A shutdown ends the retries, and the call counts as done.
SetGivesUp(t) ==
    /\ At(t, "set", "ask")
    /\ g_shutting_down
    /\ GoTo(t, "told")
    /\ overtaken' = overtaken \union {t}
    /\ UNCHANGED <<bound, server, subscribers, updates, g_params, g_subscribed_params, mutex,
                   missed, begun, changes, failures>>

SetDone(t) ==
    /\ At(t, "set", "told")
    /\ Learn(call[t].key, call[t].value)
    /\ IF t \in overtaken
         THEN /\ overtaken' = overtaken \ {t}
              /\ missed' = missed \union ({call[t].key} \cap g_subscribed_params)
         ELSE /\ Overtakes(call[t].key)
              /\ missed' = missed \ Renewed(call[t].key)
    /\ Unlock(t)
    /\ Return(t)
    /\ UNCHANGED <<bound, server, subscribers, updates, g_subscribed_params, begun,
                   changes, failures>>
-----------------------------------------------------------------------------
(* getCached().                                                                 *)
GetCached(t, k) ==
    /\ mutex = Nobody
    /\ \/ /\ k \in g_subscribed_params \cap Cached      \* served from the cache
          /\ begun < bound.calls /\ begun' = begun + 1 /\ call[t] = Idle
          /\ UNCHANGED <<call, g_subscribed_params, mutex>>
       \/ /\ k \in g_subscribed_params \ Cached
          /\ Begin(t, [op |-> "getCached", key |-> k, at |-> "fetch"])
          /\ UNCHANGED <<g_subscribed_params, mutex>>
       \/ /\ k \notin g_subscribed_params
          /\ Begin(t, [op |-> "getCached", key |-> k, at |-> "subscribe"])
          /\ g_subscribed_params' = g_subscribed_params \union {k}
          /\ mutex' = t
    /\ UNCHANGED <<bound, server, subscribers, updates, g_params, overtaken, missed,
                   changes, failures>>

Subscribe(t) ==
    /\ At(t, "getCached", "subscribe")
    /\ subscribers' = subscribers \union {call[t].key}
    /\ GoTo(t, "fetch")
    /\ Unlock(t)
    /\ UNCHANGED <<bound, server, updates, g_params, g_subscribed_params, overtaken,
                   missed, begun, changes, failures>>

\* use_cache = false: the value that is fetched next is not kept.
SubscribeFails(t) ==
    /\ At(t, "getCached", "subscribe")
    /\ Fails
    /\ subscribers' \in {subscribers, subscribers \union {call[t].key}}
    /\ g_subscribed_params' = g_subscribed_params \ {call[t].key}
    /\ Return(t)
    /\ Unlock(t)
    /\ UNCHANGED <<bound, server, updates, g_params, overtaken, missed, begun, changes>>

\* getParam, outside of the mutex.  When it fails, or there is no such parameter, v stays
\* what the caller's variable was: invalid, or the value of something else.
Fetch(t) ==
    /\ At(t, "getCached", "fetch")
    /\ LET k == call[t].key
           Fetched(value) ==
               call' = [call EXCEPT ![t] = [op |-> "getCached", key |-> k, value |-> value,
                                            at |-> "fetched"]]
           Untouched ==
               \E v \in IF bound.reused THEN ValuesOf(k) ELSE {None(k)} :
                   /\ Fetched(v)
                   /\ overtaken' = IF v = ValueOf(k) THEN overtaken
                                                     ELSE overtaken \union {t}
       IN  \/ ValueOf(k) # None(k) /\ Fetched(ValueOf(k)) /\ UNCHANGED <<failures, overtaken>>
           \/ ValueOf(k) = None(k) /\ Untouched /\ UNCHANGED failures
           \/ Fails /\ Untouched
    /\ UNCHANGED <<bound, server, subscribers, updates, g_params, g_subscribed_params,
                   mutex, missed, begun, changes>>

\* The answer is cached, whatever has happened since.
Store(t) ==
    /\ At(t, "getCached", "fetched")
    /\ mutex = Nobody
    /\ g_params' = Keep(call[t].key, call[t].value)
    /\ missed' = IF t \in overtaken THEN missed \union {call[t].key}
                                    ELSE missed \ {call[t].key}
    /\ overtaken' = overtaken \ {t}
    /\ Return(t)
    /\ UNCHANGED <<bound, server, subscribers, updates, g_subscribed_params, mutex, begun,
                   changes, failures>>
-----------------------------------------------------------------------------
(* del(): this node forgets the parameter and the server deletes it.            *)
Del(t, k) ==
    /\ mutex = Nobody
    /\ Begin(t, [op |-> "del", key |-> k, at |-> "ask"])
    /\ g_subscribed_params' = g_subscribed_params \ {k}
    /\ g_params' = Without(g_params, {k})
    /\ overtaken' = overtaken \union {u \in Thread : /\ call[u].op = "getCached"
                                                     /\ call[u].key = k}
    /\ missed' = missed \ {k}
    /\ UNCHANGED <<bound, server, subscribers, updates, mutex, changes, failures>>

DelOnServer(t) ==
    /\ At(t, "del", "ask")
    /\ \/ ServerSets(call[t].key, None(call[t].key)) /\ UNCHANGED failures
       \/ Fails /\ UNCHANGED <<server, updates>>
    /\ Return(t)
    /\ UNCHANGED <<bound, subscribers, g_params, g_subscribed_params, mutex, overtaken,
                   missed, begun, changes>>
-----------------------------------------------------------------------------
(* update(), in the XML-RPC server's thread.                                    *)
Update ==
    /\ updates # << >>
    /\ mutex = Nobody
    /\ Learn(Head(updates).key, Head(updates).value)
    /\ Overtakes(Head(updates).key)
    /\ LET k == Head(updates).key
       IN  missed' = (missed \ Renewed(k)) \union (ParentsOf(k) \cap {Root})
                       \union (({k} \cap g_subscribed_params) \ Head(updates).known)
    /\ updates' = Tail(updates)
    /\ UNCHANGED <<bound, server, subscribers, g_subscribed_params, mutex, call, begun,
                   changes, failures>>
-----------------------------------------------------------------------------
ParamInit ==
    /\ bound \in Bounds
    /\ server = [l \in Leaf |-> bound.first]
    /\ subscribers = {} /\ updates = << >>
    /\ g_params = << >> /\ g_subscribed_params = {}
    /\ g_shutting_down = FALSE /\ mutex = Nobody
    /\ call = [t \in Thread |-> Idle]
    /\ overtaken = {} /\ missed = {}
    /\ begun = 0 /\ changes = 0 /\ failures = 0

ParamCall(t) ==
    \E k \in Key : /\ k \in bound.keys
                  /\ \/ \E value \in ValuesOf(k) \ {None(k)} : Set(t, k, value)
                     \/ GetCached(t, k)
                     \/ Del(t, k)

Continue(t) ==
    \/ SetOnServer(t) \/ SetRefused(t) \/ SetGivesUp(t) \/ SetDone(t)
    \/ Subscribe(t) \/ SubscribeFails(t) \/ Fetch(t) \/ Store(t)
    \/ DelOnServer(t)
-----------------------------------------------------------------------------
ParamTypeOK ==
    /\ server \in [Leaf -> Value \union {NoValue}]
    /\ subscribers \subseteq Key /\ g_subscribed_params \subseteq Key
    /\ \A i \in DOMAIN updates : updates[i] \in Message
    /\ Cached \subseteq Key /\ \A k \in Cached : g_params[k] \in Reading(k)
    /\ mutex \in Thread \union {Nobody}
    /\ overtaken \subseteq Thread /\ missed \subseteq Key

\* A paramUpdate is on its way of k or of something in it.
NewsFor(k) ==
    \E i \in DOMAIN updates : updates[i].key = k \/ k \in ParentsOf(updates[i].key)

(* What getCached() would answer from the cache is what the server has, or news *)
(* of the difference is on its way: set(), update(), invalidateParentParams()   *)
(* and the failures of subscribeParam leave nothing stale that nobody will      *)
(* refresh.  Excepted are the values stored by a getCached() that an update, a  *)
(* set() or a del() overtook between its getParam and its store, or whose       *)
(* getParam failed, and by a set() that a shutdown cut short: those stay stale  *)
(* until the parameter changes again.  So does, from the first paramUpdate of   *)
(* something below it, what is cached of the root: no update erases that, until *)
(* "/" itself is set or deleted.                                                *)
StaleOnlyWithNews ==
    /\ ParamTypeOK
    /\ \A k \in g_subscribed_params \cap Cached :
           g_params[k] = ValueOf(k) \/ NewsFor(k) \/ k \in missed
=============================================================================
