---------------------------- MODULE CallbackQueue ----------------------------
(***************************************************************************)
(* ros::CallbackQueue: callbacks are added by the threads of the library,  *)
(* called by spinner threads and removed by owner id.                      *)
(*                                                                         *)
(* A step is what a thread does under one acquisition of mutex_,           *)
(* id_info_mutex_ or the reader-writer lock of an IDInfo; the frames of a  *)
(* thread's calls into the queue, nested when a callback calls the queue   *)
(* again, are kept on its stack.  In the code tls->cb_it is always the     *)
(* first of tls->callbacks where it is used, so it is not a variable here. *)
(***************************************************************************)
EXTENDS Integers, FiniteSets, Sequences, SequencesExt, Filter

CONSTANTS
  Threads,     \* all threads
  Adders,      \* threads that call addCallback
  Removers,    \* threads that call removeByID
  OneCallers,  \* threads that call callOne (AsyncSpinner of several threads)
  AllCallers,  \* threads that call callAvailable (spinOnce, single threaded spinners)
  Callbacks,   \* callbacks, each added once
  Ids,         \* removal ids
  Owner,       \* the removal id of each callback
  Lazy,        \* callbacks whose ready() may return false
  Retrying,    \* callbacks whose call() may return TryAgain
  Controlled,  \* whether enable, disable and clear are called
  MaxDepth,    \* bound: frames of one thread; callbacks call the queue when above 1
  Recursive    \* whether callbacks call callOne and callAvailable

ASSUME CallbackQueueAssumption ==
  /\ Adders \union Removers \union OneCallers \union AllCallers \subseteq Threads
  /\ Owner \in [Callbacks -> Ids] /\ Lazy \union Retrying \subseteq Callbacks
  /\ MaxDepth \in Nat \ {0} /\ {Controlled, Recursive} \subseteq BOOLEAN
  /\ IsFiniteSet(Callbacks) /\ IsFiniteSet(Threads)

VARIABLES
  callbacks,   \* callbacks_
  calling,     \* calling_
  enabled,     \* enabled_
  id_info,     \* id_info_: the IDInfo object of each id, None when absent
  objects,     \* number of IDInfo objects made
  shared,      \* shared locks held on the calling_rw_mutex of each object
  tls,         \* tls->callbacks of each thread
  stack,       \* frames of each thread, the innermost last
  fate,        \* history: what has become of each callback
  added,       \* history: callbacks whose addCallback has returned
  gone         \* history: callbacks added before a removeByID of their id that has returned

vars == <<callbacks, calling, enabled, id_info, objects, shared, tls, stack, fate, added, gone>>

None == 0
Objects == 1 .. Cardinality(Callbacks)
Fates == {"new", "rejected", "queued", "held", "running", "done", "dropped", "removed",
          "cleared"}

Frame == [pc : {"add_info", "rm_lock", "rm_wait", "rm_relock", "rm_forget",
                "call_head", "call_lock", "calling", "call_done"},
          cb : Callbacks \union {None}, id : Ids \union {None},
          obj : Objects \union {None}, victims : SUBSET Callbacks,
          unlocked : BOOLEAN, all : BOOLEAN, called : Nat]
NewFrame(pc) == [pc |-> pc, cb |-> None, id |-> None, obj |-> None, victims |-> {},
                 unlocked |-> FALSE, all |-> FALSE, called |-> 0]

Init ==
  /\ callbacks = <<>> /\ calling = 0 /\ enabled = TRUE
  /\ id_info = [id \in Ids |-> None] /\ objects = 0 /\ shared = [o \in Objects |-> 0]
  /\ tls = [t \in Threads |-> <<>>] /\ stack = [t \in Threads |-> <<>>]
  /\ fate = [c \in Callbacks |-> "new"] /\ added = {} /\ gone = {}

-----------------------------------------------------------------------------
At(t, pc) == stack[t] # <<>> /\ Last(stack[t]).pc = pc
Top(t) == Last(stack[t])

\* A thread may call the queue when it is not in it, or from within a callback.
Free(t) == stack[t] = <<>> \/ (At(t, "calling") /\ Len(stack[t]) < MaxDepth)
MayCall(t) == Free(t) /\ (stack[t] = <<>> \/ Recursive)

Push(t, f) == stack' = [stack EXCEPT ![t] = Append(@, f)]
Become(t, f) == stack' = [stack EXCEPT ![t] = Append(Front(@), f)]
Return(t) == stack' = [stack EXCEPT ![t] = Front(@)]
Step(t, pc) == Become(t, [Top(t) EXCEPT !.pc = pc])

\* calling_in_this_thread: the id of the innermost callback that the thread is in.
CallingIn(t) ==
  LET in == {i \in 1 .. Len(stack[t]) : stack[t][i].pc = "calling"}
  IN IF in = {} THEN None
     ELSE Owner[stack[t][CHOOSE i \in in : \A j \in in : j <= i].cb]

\* boost::shared_mutex: a waiting writer keeps new readers out.
WriterWaits(o) == \E t \in Threads : At(t, "rm_wait") /\ Top(t).obj = o

-----------------------------------------------------------------------------
(* addCallback: the push and the creation of the IDInfo are two critical sections *)

AddCallback(t, c) ==
  /\ t \in Adders /\ Free(t) /\ fate[c] = "new"
  /\ IF enabled
     THEN /\ callbacks' = Append(callbacks, c)
          /\ fate' = [fate EXCEPT ![c] = "queued"]
          /\ Push(t, [NewFrame("add_info") EXCEPT !.cb = c])
     ELSE /\ fate' = [fate EXCEPT ![c] = "rejected"]
          /\ UNCHANGED <<callbacks, stack>>
  /\ UNCHANGED <<calling, enabled, id_info, objects, shared, tls, added, gone>>

AddIDInfo(t) ==
  /\ At(t, "add_info")
  /\ LET id == Owner[Top(t).cb]
     IN IF id_info[id] = None
        THEN /\ objects' = objects + 1 /\ id_info' = [id_info EXCEPT ![id] = objects + 1]
        ELSE UNCHANGED <<objects, id_info>>
  /\ added' = added \union {Top(t).cb}
  /\ Return(t)
  /\ UNCHANGED <<callbacks, calling, enabled, shared, tls, fate, gone>>

-----------------------------------------------------------------------------
(* removeByID *)

InsideNever(t, id) == FALSE            \* mutant: the shared lock is never given up
Inside(t, id) == CallingIn(t) = id

ErasedFirst(id) == \* mutant: the loop skips the element after the one it erased
  LET i == SelectInSeq(callbacks, LAMBDA c : Owner[c] = id)
  IN IF i = 0 THEN callbacks ELSE RemoveAt(callbacks, i)
Erased(id) == Filter(callbacks, {c \in Callbacks : Owner[c] # id})

AfterEraseForgets(f) == "rm_forget" \* mutant: the shared lock is not taken again
AfterErase(f) == IF f.unlocked THEN "rm_relock" ELSE "rm_forget"

Victims(id) == {c \in added : Owner[c] = id}

\* The lookup; a removal from within a callback of the id gives up its shared lock.
RemoveByID(t, id) ==
  /\ t \in Removers /\ Free(t)
  /\ LET o     == id_info[id]
         inner == Inside(t, id)
     IN IF o = None
        THEN /\ gone' = gone \union Victims(id)
             /\ UNCHANGED <<stack, shared>>
        ELSE /\ Push(t, [NewFrame("rm_lock") EXCEPT !.id = id, !.obj = o, !.unlocked = inner,
                                                    !.victims = Victims(id)])
             /\ shared' = [shared EXCEPT ![o] = @ - IF inner THEN 1 ELSE 0]
             /\ UNCHANGED gone
  /\ UNCHANGED <<callbacks, calling, enabled, id_info, objects, tls, fate, added>>

RemoveWait(t) ==
  /\ At(t, "rm_lock") /\ shared[Top(t).obj] # 0
  /\ Step(t, "rm_wait")
  /\ UNCHANGED <<callbacks, calling, enabled, id_info, objects, shared, tls, fate, added, gone>>

\* With the exclusive lock and mutex_ held, for no longer than this step.
RemoveErase(t) ==
  /\ At(t, "rm_lock") \/ At(t, "rm_wait")
  /\ shared[Top(t).obj] = 0
  /\ callbacks' = Erased(Top(t).id)
  /\ fate' = [c \in Callbacks |->
                IF Owner[c] = Top(t).id /\ fate[c] = "queued" THEN "removed" ELSE fate[c]]
  /\ Step(t, AfterErase(Top(t)))
  /\ UNCHANGED <<calling, enabled, id_info, objects, shared, tls, added, gone>>

RemoveRelock(t) ==
  /\ At(t, "rm_relock") /\ ~WriterWaits(Top(t).obj)
  /\ shared' = [shared EXCEPT ![Top(t).obj] = @ + 1]
  /\ Step(t, "rm_forget")
  /\ UNCHANGED <<callbacks, calling, enabled, id_info, objects, tls, fate, added, gone>>

\* Marks what the thread itself has popped, erases the IDInfo and returns.
RemoveForget(t) ==
  /\ At(t, "rm_forget")
  /\ tls' = [tls EXCEPT ![t] = [i \in 1 .. Len(tls[t]) |->
               [tls[t][i] EXCEPT !.marked = @ \/ Owner[tls[t][i].cb] = Top(t).id]]]
  /\ id_info' = [id_info EXCEPT ![Top(t).id] = None]
  /\ gone' = gone \union Top(t).victims
  /\ Return(t)
  /\ UNCHANGED <<callbacks, calling, enabled, objects, shared, fate, added>>

-----------------------------------------------------------------------------
(* callOne, callAvailable and callOneCB *)

Held(c) == [cb |-> c, marked |-> FALSE]

Popped(n) == calling + n

\* callOne pops the first callback that is ready.
CallOne(t) ==
  /\ t \in OneCallers /\ MayCall(t) /\ enabled
  /\ \E i \in 1 .. Len(callbacks) :
       /\ \A j \in 1 .. i - 1 : callbacks[j] \in Lazy
       /\ callbacks' = RemoveAt(callbacks, i)
       /\ tls' = [tls EXCEPT ![t] = Append(@, Held(callbacks[i]))]
       /\ fate' = [fate EXCEPT ![callbacks[i]] = "held"]
  /\ calling' = Popped(1)
  /\ Push(t, NewFrame("call_head"))
  /\ UNCHANGED <<enabled, id_info, objects, shared, added, gone>>

\* callAvailable takes all callbacks, and counts what an outer call of this thread holds.
CallAvailable(t) ==
  /\ t \in AllCallers /\ MayCall(t) /\ enabled /\ callbacks # <<>>
  /\ tls' = [tls EXCEPT ![t] = @ \o [i \in 1 .. Len(callbacks) |-> Held(callbacks[i])]]
  /\ calling' = Popped(Len(tls'[t]))
  /\ fate' = [c \in Callbacks |-> IF Contains(callbacks, c) THEN "held" ELSE fate[c]]
  /\ callbacks' = <<>>
  /\ Push(t, [NewFrame("call_head") EXCEPT !.all = TRUE])
  /\ UNCHANGED <<enabled, id_info, objects, shared, added, gone>>

\* The frame after one callback is over, when rest is left in tls->callbacks.
NextCall(f, rest) ==
  [f EXCEPT !.called = @ + 1, !.cb = None, !.obj = None,
            !.pc = IF f.all /\ rest # <<>> THEN "call_head" ELSE "call_done"]

\* getIDInfo: a callback whose id has no IDInfo is dropped.
CallHead(t) ==
  /\ At(t, "call_head")
  /\ LET c == Head(tls[t]).cb
         o == id_info[Owner[c]]
     IN IF o = None
        THEN /\ tls' = [tls EXCEPT ![t] = Tail(@)]
             /\ fate' = [fate EXCEPT ![c] = "dropped"]
             /\ Become(t, NextCall(Top(t), Tail(tls[t])))
        ELSE /\ Become(t, [Top(t) EXCEPT !.pc = "call_lock", !.obj = o])
             /\ UNCHANGED <<tls, fate>>
  /\ UNCHANGED <<callbacks, calling, enabled, id_info, objects, shared, added, gone>>

\* The shared lock is taken and the callback called, unless it was marked for removal.
CallStart(t) ==
  /\ At(t, "call_lock") /\ ~WriterWaits(Top(t).obj)
  /\ LET h == Head(tls[t])
     IN /\ tls' = [tls EXCEPT ![t] = Tail(@)]
        /\ IF h.marked
           THEN /\ fate' = [fate EXCEPT ![h.cb] = "removed"]
                /\ Become(t, NextCall(Top(t), Tail(tls[t])))
                /\ UNCHANGED shared
           ELSE /\ fate' = [fate EXCEPT ![h.cb] = "running"]
                /\ Become(t, [Top(t) EXCEPT !.pc = "calling", !.cb = h.cb])
                /\ shared' = [shared EXCEPT ![Top(t).obj] = @ + 1]
  /\ UNCHANGED <<callbacks, calling, enabled, id_info, objects, added, gone>>

PushFront(c, again) == \* mutant: a callback that tries again goes before the others
  IF again THEN <<c>> \o callbacks ELSE callbacks
PushBack(c, again) == IF again THEN Append(callbacks, c) ELSE callbacks

\* call() returns; after TryAgain the callback goes to the back of the shared queue before
\* the shared lock is released.
CallReturn(t, again) ==
  /\ At(t, "calling")
  /\ LET c == Top(t).cb
     IN /\ again => c \in Retrying
        /\ callbacks' = PushBack(c, again)
        /\ fate' = [fate EXCEPT ![c] = IF again THEN "queued" ELSE "done"]
  /\ shared' = [shared EXCEPT ![Top(t).obj] = @ - 1]
  /\ Become(t, NextCall(Top(t), tls[t]))
  /\ UNCHANGED <<calling, enabled, id_info, objects, tls, added, gone>>

CallDone(t) ==
  /\ At(t, "call_done")
  /\ calling' = calling - Top(t).called
  /\ Return(t)
  /\ UNCHANGED <<callbacks, enabled, id_info, objects, shared, tls, fate, added, gone>>

-----------------------------------------------------------------------------
(* enable, disable, clear *)

SetEnabled(b) ==
  /\ Controlled /\ enabled' = b
  /\ UNCHANGED <<callbacks, calling, id_info, objects, shared, tls, stack, fate, added, gone>>

Clear ==
  /\ Controlled /\ callbacks # <<>>
  /\ fate' = [c \in Callbacks |-> IF fate[c] = "queued" THEN "cleared" ELSE fate[c]]
  /\ callbacks' = <<>>
  /\ UNCHANGED <<calling, enabled, id_info, objects, shared, tls, stack, added, gone>>

\* What a thread does inside the queue and in the callbacks that it calls.
Progress(t) ==
  \/ AddIDInfo(t)
  \/ RemoveWait(t) \/ RemoveErase(t) \/ RemoveRelock(t) \/ RemoveForget(t)
  \/ CallHead(t) \/ CallStart(t) \/ CallDone(t)
  \/ CallReturn(t, FALSE)

Spin(t) == stack[t] = <<>> /\ (CallOne(t) \/ CallAvailable(t))

Next ==
  \/ \E t \in Threads :
       \/ \E c \in Callbacks : AddCallback(t, c)
       \/ \E id \in Ids : RemoveByID(t, id)
       \/ CallOne(t) \/ CallAvailable(t)
       \/ Progress(t)
       \/ CallReturn(t, TRUE)
  \/ \E b \in BOOLEAN : SetEnabled(b)
  \/ Clear

Spec == Init /\ [][Next]_vars

\* Spinner threads keep spinning; a thread that holds a lock is scheduled and callbacks
\* return.
FairSpec == Spec /\ \A t \in Threads : WF_vars(Progress(t)) /\ WF_vars(Spin(t))

-----------------------------------------------------------------------------
(* Properties *)

TypeOK ==
  /\ callbacks \in Seq(Callbacks) /\ calling \in Nat /\ enabled \in BOOLEAN
  /\ id_info \in [Ids -> Objects \union {None}] /\ objects \in 0 .. Cardinality(Callbacks)
  /\ shared \in [Objects -> Int]
  /\ tls \in [Threads -> Seq([cb : Callbacks, marked : BOOLEAN])]
  /\ stack \in [Threads -> Seq(Frame)]
  /\ fate \in [Callbacks -> Fates]
  /\ gone \subseteq added /\ added \subseteq Callbacks

\* The frames that are in a callback, as <<thread, position>>.
InCall ==
  {p \in Threads \X (1 .. MaxDepth) :
     p[2] <= Len(stack[p[1]]) /\ stack[p[1]][p[2]].pc = "calling"}

Frames(c) == {p \in InCall : stack[p[1]][p[2]].cb = c}
HeldBy(c) == {p \in Threads \X (1 .. Cardinality(Callbacks)) :
                p[2] <= Len(tls[p[1]]) /\ tls[p[1]][p[2]].cb = c}
Queued(c) == {i \in 1 .. Len(callbacks) : callbacks[i] = c}

\* isEmpty() returns true only when no callback is queued, popped or in a call.
EmptyMeansQuiet ==
  callbacks = <<>> /\ calling = 0 =>
    \A c \in Callbacks : fate[c] \notin {"queued", "held", "running"}

\* Who holds a shared lock of an object, and who has given one up for a while.
CallsOn(o) == {p \in InCall : stack[p[1]][p[2]].obj = o}
GivenUp(o) == {t \in Threads : /\ stack[t] # <<>> /\ Top(t).unlocked
                               /\ Top(t).pc # "rm_forget" /\ Top(t).obj = o}
\* The shared locks agree with the calls: every object is locked by the callbacks that run
\* on it, less those whose thread has given the lock up to remove their own id.
SharedLocks ==
  \A o \in Objects : shared[o] = Cardinality(CallsOn(o)) - Cardinality(GivenUp(o))

\* A callback is in one place: in the shared queue, popped by one thread, or in one call;
\* none is called by two threads at once, called twice or lost on the way, and isEmpty()
\* does not overlook it; and the locks on the objects are those of the calls.
InOnePlace ==
  /\ TypeOK
  /\ \A c \in Callbacks :
       /\ Cardinality(Queued(c)) = IF fate[c] = "queued"  THEN 1 ELSE 0
       /\ Cardinality(HeldBy(c)) = IF fate[c] = "held"    THEN 1 ELSE 0
       /\ Cardinality(Frames(c)) = IF fate[c] = "running" THEN 1 ELSE 0
  /\ EmptyMeansQuiet
  /\ SharedLocks

\* removeByID returns, also when it is called from a callback of the id it removes.
RemovalReturns ==
  \A t \in Threads : (\E i \in 1 .. MaxDepth : i <= Len(stack[t]) /\ stack[t][i].id # None)
                     ~> ~(\E i \in 1 .. MaxDepth : i <= Len(stack[t]) /\ stack[t][i].id # None)
=============================================================================
