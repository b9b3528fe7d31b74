--------------------------- MODULE MCCallbackQueue ---------------------------
(***************************************************************************)
(* Small instances of CallbackQueue for TLC.  One run covers several       *)
(* regimes, chosen in the initial state: who calls which operation, which  *)
(* callbacks retry, whether callbacks call the queue again.                *)
(***************************************************************************)
EXTENDS CallbackQueue, TLC

CONSTANTS s1, s2, ext, c1, c2, c3, idA, idB, RegimeNames

VARIABLES
  regime,
  escaped   \* history: the callbacks that a removal did not get hold of, see Escaping

TwoOwners == c1 :> idA @@ c2 :> idA @@ c3 :> idB

Base == [name |-> "", adders |-> {ext}, removers |-> {}, one |-> {s1}, all |-> {},
         callbacks |-> {c1, c2, c3}, retrying |-> {}, controlled |-> FALSE,
         recursive |-> FALSE, depth |-> 1]

AllRegimes ==
  { \* an AsyncSpinner of two threads, and spinOnce
    [Base EXCEPT !.name = "spin", !.one = {s1, s2}, !.all = {s2}],
    \* the same with a callback that tries again, as often as it likes
    [Base EXCEPT !.name = "again", !.one = {s1, s2}, !.all = {s2}, !.retrying = {c1}],
    \* callbacks that try again, with enable, disable and clear
    [Base EXCEPT !.name = "retry", !.all = {s2}, !.retrying = {c1, c2}, !.controlled = TRUE,
                 !.depth = 2],
    \* callbacks that spin
    [Base EXCEPT !.name = "recursive", !.all = {s1, s2}, !.recursive = TRUE, !.depth = 3],
    \* the spinner removes ids between callbacks
    [Base EXCEPT !.name = "remove_idle", !.removers = {s1}, !.all = {s1}, !.retrying = {c1}],
    \* another thread removes ids while callbacks are popped, called and tried again
    [Base EXCEPT !.name = "remove_race", !.removers = {ext}, !.all = {s1}, !.retrying = {c1}],
    \* the spinner's callbacks, and another thread, remove ids, the callbacks' own included
    [Base EXCEPT !.name = "remove", !.adders = {s1, ext}, !.removers = {s1, ext}, !.all = {s1},
                 !.callbacks = {c1, c3}, !.retrying = {c1}, !.depth = 2],
    \* two spinners, and another thread that removes ids
    [Base EXCEPT !.name = "remove_many", !.removers = {ext}, !.one = {s1, s2},
                 !.callbacks = {c1, c2}, !.retrying = {c2}] }

Calls(t) ==
  /\ stack[t] = <<>> \/ regime.recursive
  /\ (t \in regime.one /\ CallOne(t)) \/ (t \in regime.all /\ CallAvailable(t))

ThreadStep(t) ==
  \/ t \in regime.adders /\ \E c \in regime.callbacks : AddCallback(t, c)
  \/ t \in regime.removers /\ \E id \in Ids : RemoveByID(t, id)
  \/ Calls(t)
  \/ Progress(t)
  \/ At(t, "calling") /\ Top(t).cb \in regime.retrying /\ CallReturn(t, TRUE)

\* What removeByID misses when it erases callbacks from the queue: those that another thread
\* has popped, those that run under the lock of an IDInfo removed before, and a callback that
\* has given its shared lock up to remove the id itself, this removal's own included.
Escaping(t) ==
  {c \in Callbacks :
     /\ Owner[c] = Top(t).id
     /\ \/ \E p \in HeldBy(c) : p[1] # t
        \/ \E p \in Frames(c) : \/ p[1] \in GivenUp(Top(t).obj)
                               \/ stack[p[1]][p[2]].obj # Top(t).obj}
Erasing(t) == At(t, "rm_lock") \/ At(t, "rm_wait")
Escapes ==
  escaped' = escaped \union UNION {Escaping(t) : t \in {u \in Threads : Erasing(u) /\ ~Erasing(u)'}}

Within ==
  /\ \A t \in Threads : Len(stack'[t]) <= regime.depth
  /\ Escapes /\ UNCHANGED regime

MCInit == Init /\ escaped = {} /\ regime \in {r \in AllRegimes : r.name \in RegimeNames}
MCNext ==
  /\ \/ \E t \in Threads : ThreadStep(t)
     \/ regime.controlled /\ ((\E b \in BOOLEAN : SetEnabled(b)) \/ Clear)
  /\ Within

mcvars == <<vars, regime, escaped>>
MCSpec == MCInit /\ [][MCNext]_mcvars
MCFairSpec ==
  /\ MCSpec
  /\ \A t \in Threads : /\ WF_mcvars(Progress(t) /\ Within)
                        /\ WF_mcvars(stack[t] = <<>> /\ Calls(t) /\ Within)

-----------------------------------------------------------------------------
(* Properties that need the regime or the history *)

\* Once removeByID has returned, no callback that was added before it is called or still
\* running, unless it escaped: what was in the queue is gone, what other threads were calling
\* has been waited for, and what the thread itself has popped is marked.  And callOneCB drops
\* a popped callback without calling it only if its id was removed, or if its addCallback has
\* not yet made the IDInfo: the window between its two critical sections.
NoCallAfterRemoval ==
  [][\A c \in Callbacks :
       /\ fate'[c] = "running" => c \notin gone' \ escaped'
       /\ fate[c] # "dropped" /\ fate'[c] = "dropped" =>
            c \notin added \/ \E d \in gone : Owner[d] = Owner[c]]_mcvars

\* Every callback that is queued is called to its end, removed or dropped, and one that may
\* try again for ever is at least called: callbacks that come back do not keep others waiting,
\* with any number of spinners.  (Only one whose ready() may answer no can be passed by for
\* ever, by callbacks that come back.  A queue that is disabled serves nobody.)
Served(c) ==
  \/ fate[c] \in {"done", "dropped", "removed"}
  \/ fate[c] = "running" /\ c \in regime.retrying
EventuallyServed ==
  ~regime.controlled =>
    \A c \in Callbacks :
      (c \notin Lazy \/ regime.retrying = {}) => (fate[c] = "queued" ~> Served(c))
=============================================================================
