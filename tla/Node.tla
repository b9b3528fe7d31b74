-------------------------------- MODULE Node --------------------------------
(* The life of a node: ros::start() and ros::shutdown() (init.cpp), the first   *)
(* and the last NodeHandle (node_handle.cpp), the poll thread (PollManager) and *)
(* the thread that serves XML-RPC (XMLRPCManager), with the cache of parameters *)
(* of ParamCache behind it.                                                     *)
(*                                                                              *)
(* start() and shutdown() may be run by any thread of the program, shutdown()   *)
(* by the poll thread, too.  `at' is where a thread stands in them, a label for *)
(* each section under a mutex or between two looks at a shared flag, and `back' *)
(* where it goes when they return.                                              *)
EXTENDS ParamCache

VARIABLES
    g_started, g_shutdown_requested,
    lock,               \* who holds each mutex
    g_nh_refcount, g_node_started_by_nh,
    handles,            \* the threads that have a NodeHandle
    at, back,           \* where each thread is
    running,            \* the threads of the node that run
    shutting_down_,     \* the managers that have been told to shut down
    functions_,         \* what the XML-RPC server can be asked
    unbind_requested_,
    constructed,        \* TopicManager::start() has been run once
    asked,              \* history: a shutdown was asked for since the last start
    cutShort,           \* history: shutdown() began before start() had started all
    overlap,            \* history: start() began while a shutdown() was under way or
                        \* threads of the last life were still ending
    spent               \* how much of the bounds is used

flags == <<g_started, g_shutdown_requested, g_shutting_down>>
nodeHandles == <<g_nh_refcount, g_node_started_by_nh, handles>>
managers == <<running, shutting_down_, functions_, unbind_requested_, constructed>>
histories == <<asked, cutShort, overlap, spent>>
vars == <<paramVars, flags, lock, nodeHandles, at, back, managers, histories>>

Poll == "poll"
Server == "server"
Internal == "internal"
\* The threads of the node are not threads of the program.
ASSUME NodeAssumption ==
    /\ Poll \notin Thread /\ Server \notin Thread /\ Nobody \notin {Poll, Server}
    /\ \A b \in Bounds : b.up \in BOOLEAN
Caller == Thread \union {Poll}
Mutex == {"start", "shutting_down", "nh_refcount", "signal", "functions", "topics", "services"}
Manager == {"topics", "services", "poll", "xmlrpc"}

Free(m) == lock[m] = Nobody
Locks(m, c) == Free(m) /\ lock' = [lock EXCEPT ![m] = c]
Unlocks(m, c) == lock[m] = c /\ lock' = [lock EXCEPT ![m] = Nobody]
Spend(what) == spent[what] < bound[what] /\ spent' = [spent EXCEPT ![what] = @ + 1]
To(c, label) == at' = [at EXCEPT ![c] = label]
Call(c, label, afterwards) == To(c, label) /\ back' = [back EXCEPT ![c] = afterwards]
Go(c, from, label) == at[c] = from /\ To(c, label) /\ UNCHANGED back

StartingThreads == {"start_listeners", "start_managers", "start_poll", "start_xmlrpc"}
-----------------------------------------------------------------------------
(* start().                                                                     *)
Start(c) ==
    /\ at[c] = "start"
    /\ IF g_started
         THEN /\ Free("start") /\ To(c, back[c])
              /\ UNCHANGED <<flags, lock, histories>>
         ELSE /\ Locks("start", c)
              /\ To(c, "start_listeners")
              /\ g_shutdown_requested' = FALSE /\ g_shutting_down' = FALSE
              /\ g_started' = TRUE
              /\ asked' = FALSE /\ cutShort' = FALSE
              /\ overlap' = (running # {} \/ ~Free("shutting_down"))
              /\ UNCHANGED spent
    /\ UNCHANGED <<paramVars, back, nodeHandles, managers>>

\* PollManager calls checkForShutdown, XMLRPCManager shutdownCallback.
StartListeners(c) ==
    /\ Go(c, "start_listeners", "start_managers")
    /\ Free("signal") /\ Free("functions")
    /\ functions_' = functions_ \union {"shutdown"}
    /\ UNCHANGED <<paramVars, flags, lock, nodeHandles, histories, running, shutting_down_,
                   unbind_requested_, constructed>>

\* TopicManager::start() and ServiceManager::start().
StartManagers(c) ==
    /\ Go(c, "start_managers", "start_poll")
    /\ Free("topics") /\ Free("functions")
    /\ constructed' = TRUE
    /\ shutting_down_' = shutting_down_ \ {"topics", "services"}
    /\ functions_' = functions_ \union {"topics"}
    /\ UNCHANGED <<paramVars, flags, lock, nodeHandles, histories, running,
                   unbind_requested_>>

\* PollManager::start(); the new thread begins at its loop.
StartPoll(c) ==
    /\ at[c] = "start_poll"
    /\ at' = [at EXCEPT ![c] = "start_xmlrpc",
                        ![Poll] = IF Poll \in running THEN @ ELSE "loop"]
    /\ shutting_down_' = shutting_down_ \ {"poll"}
    /\ running' = running \union {Poll}
    /\ UNCHANGED <<paramVars, flags, lock, nodeHandles, histories, back, functions_,
                   unbind_requested_, constructed>>

\* XMLRPCManager::start().
StartXmlrpc(c) ==
    /\ at[c] = "start_xmlrpc"
    /\ Free("functions")
    /\ at' = [at EXCEPT ![c] = "start_rosout", ![Server] = "loop"]
    /\ shutting_down_' = shutting_down_ \ {"xmlrpc"}
    /\ running' = running \union {Server}
    /\ UNCHANGED <<paramVars, flags, lock, nodeHandles, histories, back, functions_,
                   unbind_requested_, constructed>>

\* /rosout is registered with the master, then start() looks whether it goes on.
StartRosout(c) ==
    /\ Go(c, "start_rosout", IF g_shutting_down THEN "start_end" ELSE "start_services")
    /\ UNCHANGED <<paramVars, flags, lock, nodeHandles, histories, managers>>

\* advertiseService() keeps the ServiceManager's shutting_down_mutex_ while it calls the
\* master, unless the manager has been shut down.
StartServices(c) ==
    /\ Free("services")
    /\ IF "services" \in shutting_down_
         THEN Go(c, "start_services", "start_clock") /\ UNCHANGED lock
         ELSE Go(c, "start_services", "start_registering") /\ Locks("services", c)
    /\ UNCHANGED <<paramVars, flags, nodeHandles, histories, managers>>
StartRegistered(c) ==
    /\ Go(c, "start_registering", "start_clock")
    /\ Unlocks("services", c)
    /\ UNCHANGED <<paramVars, flags, nodeHandles, histories, managers>>

StartClock(c) ==
    /\ Go(c, "start_clock", IF g_shutting_down THEN "start_end" ELSE "start_internal")
    /\ UNCHANGED <<paramVars, flags, lock, nodeHandles, histories, managers>>
StartInternal(c) ==
    /\ Go(c, "start_internal", "start_end")
    /\ running' = running \union {Internal}
    /\ UNCHANGED <<paramVars, flags, lock, nodeHandles, histories, shutting_down_,
                   functions_, unbind_requested_, constructed>>

\* Wait for a shutdown that has begun meanwhile.
StartEnd(c) ==
    /\ Go(c, "start_end", back[c])
    /\ g_shutting_down => Free("shutting_down")
    /\ Unlocks("start", c)
    /\ UNCHANGED <<paramVars, flags, nodeHandles, histories, managers>>
-----------------------------------------------------------------------------
(* shutdown().  Its mutex is recursive: checkForShutdown() has it already.      *)
\* Mutant: it is not.
ShutNotRecursive(c) ==
    /\ at[c] = "shut"
    /\ Free("shutting_down")
    /\ IF g_shutting_down
         THEN To(c, back[c]) /\ UNCHANGED <<flags, lock, histories>>
         ELSE /\ To(c, "shut_internal")
              /\ lock' = [lock EXCEPT !["shutting_down"] = c]
              /\ g_shutting_down' = TRUE
              /\ asked' = (asked \/ back[c] # "destructed")
              /\ cutShort' = \E d \in Caller : at[d] \in StartingThreads
              /\ UNCHANGED <<g_started, g_shutdown_requested, overlap, spent>>
    /\ UNCHANGED <<paramVars, back, nodeHandles, managers>>

Shut(c) ==
    /\ at[c] = "shut"
    /\ lock["shutting_down"] \in {Nobody, c}
    /\ IF g_shutting_down
         THEN To(c, back[c]) /\ UNCHANGED <<flags, lock, histories>>
         ELSE /\ To(c, "shut_internal")
              /\ lock' = [lock EXCEPT !["shutting_down"] = c]
              /\ g_shutting_down' = TRUE
              /\ asked' = (asked \/ back[c] # "destructed")
              /\ cutShort' = \E d \in Caller : at[d] \in StartingThreads
              /\ UNCHANGED <<g_started, g_shutdown_requested, overlap, spent>>
    /\ UNCHANGED <<paramVars, back, nodeHandles, managers>>

ShutInternal(c) ==
    /\ Go(c, "shut_internal", IF g_started THEN "shut_topics" ELSE "shut_done")
    /\ Internal \notin running
    /\ UNCHANGED <<paramVars, flags, lock, nodeHandles, histories, managers>>

\* TopicManager::shutdown() follows a null pointer when the first start() has set g_started
\* and not yet come to the managers.
ShutTopics(c) ==
    /\ Free("topics")
    /\ IF "topics" \in shutting_down_
         THEN Go(c, "shut_topics", "shut_services") /\ UNCHANGED <<lock, shutting_down_>>
         ELSE /\ Go(c, "shut_topics", IF constructed THEN "shut_unbind" ELSE "crashed")
              /\ Locks("topics", c)
              /\ shutting_down_' = shutting_down_ \union {"topics"}
    /\ UNCHANGED <<paramVars, flags, nodeHandles, histories, running, functions_,
                   unbind_requested_, constructed>>

\* unbind(): the server's thread is asked to leave the mutex alone for a while.
ShutUnbind(c) ==
    /\ Go(c, "shut_unbind", "shut_unbinding")
    /\ unbind_requested_' = TRUE
    /\ UNCHANGED <<paramVars, flags, lock, nodeHandles, histories, running, shutting_down_,
                   functions_, constructed>>
ShutUnbinding(c) ==
    /\ Go(c, "shut_unbinding", "shut_unregister")
    /\ Free("functions")
    /\ functions_' = functions_ \ {"topics"}
    /\ unbind_requested_' = FALSE
    /\ UNCHANGED <<paramVars, flags, lock, nodeHandles, histories, running, shutting_down_,
                   constructed>>
ShutUnregister(c) ==
    /\ Go(c, "shut_unregister", "shut_services")
    /\ Unlocks("topics", c)
    /\ UNCHANGED <<paramVars, flags, nodeHandles, histories, managers>>

\* ServiceManager::shutdown().
ShutServices(c) ==
    /\ Go(c, "shut_services", "shut_poll")
    /\ Free("services")
    /\ shutting_down_' = shutting_down_ \union {"services"}
    /\ UNCHANGED <<paramVars, flags, lock, nodeHandles, histories, running, functions_,
                   unbind_requested_, constructed>>

\* PollManager::shutdown(): the poll thread does not wait for itself.  Then
\* ConnectionManager::shutdown(), which takes no mutex that is kept.
ShutPoll(c) ==
    /\ Go(c, "shut_poll", IF "poll" \in shutting_down_ THEN "shut_xmlrpc" ELSE "shut_poll_join")
    /\ shutting_down_' = shutting_down_ \union {"poll"}
    /\ UNCHANGED <<paramVars, flags, lock, nodeHandles, histories, running, functions_,
                   unbind_requested_, constructed>>

\* Mutant: the poll thread joins itself.
ShutPollJoinAny(c) ==
    /\ Go(c, "shut_poll_join", "shut_xmlrpc")
    /\ Poll \notin running
    /\ lock["signal"] \in {Nobody, c}
    /\ UNCHANGED <<paramVars, flags, lock, nodeHandles, histories, managers>>

ShutPollJoin(c) ==
    /\ Go(c, "shut_poll_join", "shut_xmlrpc")
    /\ c # Poll => Poll \notin running
    /\ lock["signal"] \in {Nobody, c}
    /\ UNCHANGED <<paramVars, flags, lock, nodeHandles, histories, managers>>

\* XMLRPCManager::shutdown().
ShutXmlrpc(c) ==
    /\ Go(c, "shut_xmlrpc", IF "xmlrpc" \in shutting_down_ THEN "shut_done"
                                                          ELSE "shut_xmlrpc_join")
    /\ shutting_down_' = shutting_down_ \union {"xmlrpc"}
    /\ UNCHANGED <<paramVars, flags, lock, nodeHandles, histories, running, functions_,
                   unbind_requested_, constructed>>
ShutXmlrpcJoin(c) ==
    /\ Go(c, "shut_xmlrpc_join", "shut_done")
    /\ Server \notin running
    /\ Free("functions")
    /\ functions_' = {}
    /\ UNCHANGED <<paramVars, flags, lock, nodeHandles, histories, running, shutting_down_,
                   unbind_requested_, constructed>>

ShutDone(c) ==
    /\ Go(c, "shut_done", back[c])
    /\ g_started' = FALSE
    /\ IF back[c] = "checked" THEN UNCHANGED lock ELSE Unlocks("shutting_down", c)
    /\ UNCHANGED <<paramVars, g_shutdown_requested, g_shutting_down, nodeHandles, histories,
                   managers>>
-----------------------------------------------------------------------------
(* The program: its NodeHandles, ros::start(), ros::shutdown() and, from a      *)
(* signal handler, another node or anywhere, ros::requestShutdown().            *)
Ready(t) == at[t] = "idle" /\ call[t] = Idle

Construct(t) ==
    /\ Ready(t) /\ t \notin handles
    /\ Spend("handles")
    /\ Locks("nh_refcount", t)
    /\ IF g_nh_refcount = 0 /\ ~g_started
         THEN Call(t, "start", "constructed") /\ g_node_started_by_nh' = TRUE
         ELSE Call(t, "constructed", "idle") /\ UNCHANGED g_node_started_by_nh
    /\ UNCHANGED <<paramVars, flags, g_nh_refcount, handles, managers, asked, cutShort, overlap>>
Constructed(t) ==
    /\ Go(t, "constructed", "idle")
    /\ g_nh_refcount' = g_nh_refcount + 1
    /\ handles' = handles \union {t}
    /\ Unlocks("nh_refcount", t)
    /\ UNCHANGED <<paramVars, flags, g_node_started_by_nh, managers, histories>>

\* Mutant: shutdown() is called when the mutex is left.
DestructUnlocked(t) ==
    /\ Ready(t) /\ t \in handles
    /\ Free("nh_refcount") /\ UNCHANGED lock
    /\ g_nh_refcount' = g_nh_refcount - 1
    /\ handles' = handles \ {t}
    /\ IF g_nh_refcount = 1 /\ g_node_started_by_nh
         THEN Call(t, "shut", "destructed")
         ELSE UNCHANGED <<at, back>>
    /\ UNCHANGED <<paramVars, flags, g_node_started_by_nh, managers, histories>>

Destruct(t) ==
    /\ Ready(t) /\ t \in handles
    /\ Locks("nh_refcount", t)
    /\ g_nh_refcount' = g_nh_refcount - 1
    /\ handles' = handles \ {t}
    /\ Call(t, IF g_nh_refcount = 1 /\ g_node_started_by_nh THEN "shut" ELSE "destructed",
            "destructed")
    /\ UNCHANGED <<paramVars, flags, g_node_started_by_nh, managers, histories>>
Destructed(t) ==
    /\ Go(t, "destructed", "idle")
    /\ Unlocks("nh_refcount", t)
    /\ UNCHANGED <<paramVars, flags, nodeHandles, managers, histories>>

CallStart(t) ==
    /\ Ready(t)
    /\ Spend("starts")
    /\ Call(t, "start", "idle")
    /\ UNCHANGED <<paramVars, flags, lock, nodeHandles, managers, asked, cutShort, overlap>>
CallShutdown(t) ==
    /\ Ready(t)
    /\ Spend("shutdowns")
    /\ Call(t, "shut", "idle")
    /\ UNCHANGED <<paramVars, flags, lock, nodeHandles, managers, asked, cutShort, overlap>>
RequestShutdown ==
    /\ Spend("requests")
    /\ g_shutdown_requested' = TRUE
    /\ asked' = TRUE
    /\ UNCHANGED <<paramVars, g_started, g_shutting_down, lock, nodeHandles, at, back,
                   managers, cutShort, overlap>>
-----------------------------------------------------------------------------
(* The threads of the node.  The poll thread calls checkForShutdown() with      *)
(* PollManager's signal_mutex_.                                                 *)
PollLoop ==
    /\ at[Poll] = "loop"
    /\ IF "poll" \in shutting_down_
         THEN To(Poll, "ended") /\ running' = running \ {Poll} /\ UNCHANGED lock
         ELSE To(Poll, "signal") /\ Locks("signal", Poll) /\ UNCHANGED running
    /\ UNCHANGED <<paramVars, flags, back, nodeHandles, histories, shutting_down_,
                   functions_, unbind_requested_, constructed>>

\* Only tries to lock, until somebody else shuts down.
CheckForShutdown ==
    /\ at[Poll] = "signal"
    /\ \/ /\ ~g_shutdown_requested
          /\ Call(Poll, "loop", "loop")
          /\ Unlocks("signal", Poll)
       \/ /\ g_shutdown_requested
          /\ Locks("shutting_down", Poll)
          /\ Call(Poll, IF g_shutting_down THEN "checked" ELSE "shut", "checked")
       \/ /\ g_shutdown_requested
          /\ ~Free("shutting_down") /\ g_shutting_down
          /\ Call(Poll, "checked", "checked")
          /\ UNCHANGED lock
    /\ UNCHANGED <<paramVars, flags, nodeHandles, histories, managers>>
Checked ==
    /\ at[Poll] = "checked"
    /\ Call(Poll, "loop", "loop")
    /\ g_shutdown_requested' = FALSE
    /\ lock' = [m \in Mutex |-> IF lock[m] = Poll THEN Nobody ELSE lock[m]]
    /\ UNCHANGED <<paramVars, g_started, g_shutting_down, nodeHandles, histories, managers>>

InternalEnds ==
    /\ Internal \in running
    /\ g_shutting_down
    /\ running' = running \ {Internal}
    /\ UNCHANGED <<paramVars, flags, lock, nodeHandles, at, back, histories, shutting_down_,
                   functions_, unbind_requested_, constructed>>

\* The server holds functions_mutex_ while it takes the calls of other nodes.
ServerLoop ==
    /\ at[Server] = "loop"
    /\ IF "xmlrpc" \in shutting_down_
         THEN To(Server, "ended") /\ running' = running \ {Server} /\ UNCHANGED lock
         ELSE /\ ~unbind_requested_
              /\ To(Server, "work") /\ Locks("functions", Server)
              /\ UNCHANGED running
    /\ UNCHANGED <<paramVars, flags, back, nodeHandles, histories, shutting_down_,
                   functions_, unbind_requested_, constructed>>
ServerUpdate ==
    /\ at[Server] = "work"
    /\ "paramUpdate" \in functions_
    /\ Update
    /\ UNCHANGED <<flags, lock, nodeHandles, at, back, managers, histories>>
ServerWorked ==
    /\ at[Server] = "work"
    /\ updates = << >> \/ "paramUpdate" \notin functions_
    /\ To(Server, "loop")
    /\ Unlocks("functions", Server)
    /\ UNCHANGED <<paramVars, flags, nodeHandles, back, managers, histories>>
-----------------------------------------------------------------------------
\* `bound.up': the program has been through start() by itself.
Init ==
    /\ ParamInit
    /\ g_started = bound.up /\ g_shutdown_requested = FALSE
    /\ lock = [m \in Mutex |-> Nobody]
    /\ g_nh_refcount = 0 /\ g_node_started_by_nh = FALSE /\ handles = {}
    /\ at = [c \in Caller \union {Server} |->
                IF c \in Thread THEN "idle" ELSE IF bound.up THEN "loop" ELSE "ended"]
    /\ back = [c \in Caller |-> IF c = Poll /\ bound.up THEN "loop" ELSE "idle"]
    /\ running = (IF bound.up THEN {Poll, Server, Internal} ELSE {})
    /\ shutting_down_ = {}
    /\ functions_ = {"paramUpdate"} \union (IF bound.up THEN {"shutdown", "topics"} ELSE {})
    /\ unbind_requested_ = FALSE
    /\ constructed = bound.up
    /\ asked = FALSE /\ cutShort = FALSE /\ overlap = FALSE
    /\ spent = [what \in {"handles", "starts", "shutdowns", "requests"} |-> 0]

StartStep(c) ==
    \/ Start(c) \/ StartListeners(c) \/ StartManagers(c) \/ StartPoll(c) \/ StartXmlrpc(c)
    \/ StartRosout(c) \/ StartServices(c) \/ StartRegistered(c) \/ StartClock(c)
    \/ StartInternal(c) \/ StartEnd(c)
ShutStep(c) ==
    \/ Shut(c) \/ ShutInternal(c) \/ ShutTopics(c) \/ ShutUnbind(c) \/ ShutUnbinding(c)
    \/ ShutUnregister(c) \/ ShutServices(c) \/ ShutPoll(c) \/ ShutPollJoin(c)
    \/ ShutXmlrpc(c) \/ ShutXmlrpcJoin(c) \/ ShutDone(c)

\* What a thread of the program does once it has called.
ThreadStep(t) ==
    \/ StartStep(t) \/ ShutStep(t)
    \/ Constructed(t) \/ Destructed(t)
    \/ Continue(t) /\ UNCHANGED <<flags, lock, nodeHandles, at, back, managers, histories>>
PollStep == PollLoop \/ CheckForShutdown \/ Checked \/ ShutStep(Poll)
ServerStep == ServerLoop \/ ServerUpdate \/ ServerWorked

Calls(t) ==
    \/ Construct(t) \/ Destruct(t) \/ CallStart(t) \/ CallShutdown(t)
    \/ /\ Ready(t) /\ g_started
       /\ ParamCall(t)
       /\ UNCHANGED <<flags, lock, nodeHandles, at, back, managers, histories>>
OtherNodes ==
    /\ g_started
    /\ \E k \in Key : k \in bound.keys /\ \E value \in ValuesOf(k) : OtherNode(k, value)
    /\ UNCHANGED <<flags, lock, nodeHandles, at, back, managers, histories>>

Next ==
    \/ \E t \in Thread : Calls(t) \/ ThreadStep(t)
    \/ RequestShutdown \/ OtherNodes
    \/ PollStep \/ InternalEnds \/ ServerStep

\* Threads run; a mutex that others take again and again is had in the end.
Fairness ==
    /\ WF_vars(PollStep) /\ WF_vars(InternalEnds) /\ WF_vars(ServerStep)
    /\ \A t \in Thread : SF_vars(ThreadStep(t))
Spec == Init /\ [][Next]_vars /\ Fairness
-----------------------------------------------------------------------------
TypeOK ==
    /\ ParamTypeOK
    /\ lock \in [Mutex -> Caller \union {Server, Nobody}]
    /\ handles \subseteq Thread
    /\ running \subseteq {Poll, Server, Internal}
    /\ shutting_down_ \subseteq Manager
    /\ functions_ \subseteq {"paramUpdate", "shutdown", "topics"}

Crashed == \E c \in Caller : at[c] = "crashed"
ToldToEnd(thread) ==
    CASE thread = Poll -> "poll" \in shutting_down_
      [] thread = Server -> "xmlrpc" \in shutting_down_
      [] thread = Internal -> g_shutting_down

(* When shutdown() has returned every manager has been shut down, nothing can   *)
(* be asked of the server any more, and a thread of the node that still runs    *)
(* has been told to end, whoever shut down, how many did at once, and whether   *)
(* start() was under way; excepted is a shutdown that overtook start() before   *)
(* it had started all threads.                                                  *)
NothingLeftRunning ==
    g_shutting_down /\ Free("shutting_down") /\ ~cutShort /\ ~overlap =>
        /\ \A thread \in running : ToldToEnd(thread)
        /\ constructed => shutting_down_ = Manager /\ functions_ = {}

(* Whoever has a NodeHandle has a node that runs, unless a shutdown was asked   *)
(* for: the count of handles, the node being started by the first and shut down *)
(* by the last of them agree for handles that come and go in several threads.   *)
HandlesKeepNode ==
    /\ Free("nh_refcount") => g_nh_refcount = Cardinality(handles)
    /\ handles # {} /\ ~asked /\ ~overlap /\ Free("nh_refcount") =>
           /\ g_started /\ ~g_shutting_down
           /\ Free("start") => /\ running = {Poll, Server, Internal}
                              /\ shutting_down_ = {}

(* A node runs while it is wanted, and nothing of it when it is not.            *)
RunsWhileWanted == TypeOK /\ NothingLeftRunning /\ HandlesKeepNode

(* What is cached is what the server has, or the news of the change is on its   *)
(* way, as long as the node can be told of changes (after a restart nothing     *)
(* binds paramUpdate again); but for the keys in `missed': this node cached an  *)
(* answer that was overtaken or none, or the change came before it subscribed.  *)
CacheFollowsServer == "paramUpdate" \in functions_ => StaleOnlyWithNews

RequestIsServed == g_shutdown_requested => ~g_started

(* Every call of start(), shutdown(), set() and the rest returns, although      *)
(* threads wait for each other under six mutexes: shutdown() for threads that   *)
(* end, start() for the shutdown that overtook it, checkForShutdown() in the    *)
(* poll thread for the mutex of whoever waits for that thread, set() for a      *)
(* server that calls back.  And a node of which a shutdown is requested ends.   *)
CallsEnd ==
    <>[](Crashed \/ overlap \/ cutShort \/ (RequestIsServed /\ \A t \in Thread : Ready(t)))
=============================================================================
