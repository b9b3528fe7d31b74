---------------------------- MODULE TimerManager ----------------------------
(* TimerManager<T, D, E> and the Timer handles that use it: one thread keeps    *)
(* the timers that wait in the order of their next expected time and hands a    *)
(* callback to a CallbackQueue when one is due; when the callback has returned, *)
(* the timer waits again.  Timers are started, stopped and given new periods by *)
(* the user's thread and from within callbacks.  The clock may be set back, and *)
(* memory that was freed is used again.                                         *)
EXTENDS Integers, Sequences, FiniteSets, SequencesExt, Filter

CONSTANTS
    Timer,    \* handles of the user
    Address,  \* memory a TimerInfo may be put in
    Regime,   \* what happens in a behaviour, and how often
    MaxStarts, MaxTime   \* bounds: of the "starts" and the "time" of every regime

\* time       bound: the last instant of the clock
\* starts     bound: timers started
\* settings   what they are: [timer, period, oneshot, tracked]
\* changes    bound: calls of setPeriod(), to one of "periods"
\* setbacks   bound: times the clock is set back
\* calls      who calls what, as <<caller, operation>>
ASSUME TimerManagerAssumption ==
    /\ IsFiniteSet(Timer) /\ {MaxStarts, MaxTime} \subseteq Nat
    /\ IsFiniteSet(Address) /\ Address \subseteq Nat \ {0}
    /\ \A r \in Regime :
          /\ {r.setbacks, r.changes} \subseteq Nat
          /\ r.time \in 0 .. MaxTime /\ r.starts \in 0 .. MaxStarts
          /\ r.settings \subseteq [timer : Timer, period : Nat \ {0}, oneshot : BOOLEAN, tracked : BOOLEAN]
          /\ r.periods \subseteq Nat \ {0}
          /\ r.calls \subseteq {"user", "callback"} \X {"start", "stop", "setPeriod"}

TimerHandle == 1 .. MaxStarts   \* the values of id_counter_
None == 0
Caller == {"user", "callback"}
Instant == 0 .. MaxTime
Never == 2 * (MaxTime + 1)      \* T(INT_MAX, 999999999)

VARIABLES
    regime,
    now, setbacks,
    timer_handle_,  \* of each Timer; None when it is not started
    objects,        \* the Timers whose tracked object lives
    starts,         \* id_counter_
    timers_,        \* the handles the manager knows
    info,           \* the TimerInfo of each handle
    waiting_,       \* handles, by their next_expected
    new_timer_,
    thread,         \* the manager's thread
    callbacks,      \* in the callback queue, by handle
    id_info,        \* the addresses the callback queue has an IDInfo for
    calling,        \* the callback that is being called, and since when
    removing,       \* the timer each caller of remove() still has to take out of the queue
    changes,
    lost,           \* history: timers whose callback the queue has dropped
    fired,          \* history: how often each has been called
    jumped          \* history: the expected times were reset and not sorted since

clock == <<regime, now, setbacks>>
handles == <<timer_handle_, objects, starts, changes>>
manager == <<timers_, info, waiting_, new_timer_>>
queue == <<callbacks, id_info, calling, removing>>
history == <<lost, fired, jumped>>
vars == <<clock, handles, manager, thread, queue, history>>

Nothing == [handle |-> None, real |-> 0]
Unset == [address |-> None, period |-> 0, oneshot |-> FALSE, tracked |-> FALSE,
          last_expected |-> 0, next_expected |-> Never, last_real |-> -Never]

Init ==
    /\ regime \in Regime
    /\ now = 0 /\ setbacks = 0
    /\ timer_handle_ = [t \in Timer |-> None]
    /\ objects = {s.timer : s \in {s \in regime.settings : s.tracked}}
    /\ starts = 0 /\ changes = 0
    /\ timers_ = {}
    /\ info = [h \in TimerHandle |-> Unset]
    /\ waiting_ = <<>>
    /\ new_timer_ = FALSE
    /\ thread = [at |-> "sleep", current |-> 0, sleep_end |-> 0, last |-> None]
    /\ callbacks = <<>> /\ id_info = {} /\ calling = Nothing
    /\ removing = [c \in Caller |-> None]
    /\ lost = {} /\ fired = [h \in TimerHandle |-> 0] /\ jumped = FALSE

\* The thread holds timers_mutex_ except while it sleeps.
MutexFree == thread.at = "sleep"

-----------------------------------------------------------------------------
(* Time passes, and is set back, but not within a round of the thread; an object *)
(* a Timer is bound to dies.                                                    *)

\* While it sleeps the thread looks at the clock all the time.
Tick ==
    /\ MutexFree
    /\ now < regime.time /\ now' = now + 1
    /\ thread' = IF thread.at = "sleep" /\ now' < thread.sleep_end /\ thread.current <= now
                 THEN [thread EXCEPT !.current = now'] ELSE thread
    /\ UNCHANGED <<regime, setbacks, handles, manager, queue, history>>

SetBack ==
    /\ MutexFree
    /\ setbacks < regime.setbacks /\ setbacks' = setbacks + 1
    /\ now' \in 0 .. now - 1
    /\ UNCHANGED <<regime, handles, manager, thread, queue, history>>

ObjectDies(t) ==
    /\ t \in objects /\ objects' = objects \ {t}
    /\ UNCHANGED <<clock, timer_handle_, starts, changes, manager, thread, queue, history>>

-----------------------------------------------------------------------------
(* The list of timers that wait.                                                *)

\* waitingCompare(); of two that are equal a stable sort keeps the first in front.
Before(g, h, waiting, known) ==
    LET position(k) == CHOOSE i \in DOMAIN waiting : waiting[i] = k IN
    \/ known[g].next_expected < known[h].next_expected
    \/ known[g].next_expected = known[h].next_expected /\ position(g) < position(h)

\* waiting_.sort()
Sorted(waiting, known) ==
    CHOOSE s \in [DOMAIN waiting -> ToSet(waiting)] :
        /\ \A h \in ToSet(waiting) : \E i \in DOMAIN waiting : s[i] = h
        /\ \A i, j \in DOMAIN waiting : i < j => Before(s[i], s[j], waiting, known)

\* Mutant: the thread is not told.
EnlistQuietly(known, waiting) ==
    /\ info' = known
    /\ waiting_' = Sorted(waiting, known)
    /\ jumped' = FALSE
    /\ UNCHANGED new_timer_

\* A change to the timers under timers_mutex_, after which the thread looks again.
Enlist(known, waiting) ==
    /\ info' = known
    /\ waiting_' = Sorted(waiting, known)
    /\ new_timer_' = TRUE
    /\ jumped' = FALSE

\* Memory is free when no TimerInfo is in it and no callback refers to it.
InUse(h) == h \in timers_ \/ calling.handle = h \/ \E i \in DOMAIN callbacks : callbacks[i] = h
FreeAddress == {a \in Address : \A h \in TimerHandle : InUse(h) => info[h].address # a}

-----------------------------------------------------------------------------
(* Operations of the users.  A callback may call them too.                      *)

MayCall(c, operation) ==
    /\ <<c, operation>> \in regime.calls
    /\ removing[c] = None
    /\ c = "callback" => calling.handle # None

\* Timer::start(), TimerManager::add().  An object that has died is not tracked.
Start(c, t, period, oneshot) ==
    LET h == starts + 1 IN
    /\ MayCall(c, "start") /\ MutexFree
    /\ timer_handle_[t] = None /\ starts < regime.starts
    /\ starts' = h
    /\ timer_handle_' = [timer_handle_ EXCEPT ![t] = h]
    /\ timers_' = timers_ \cup {h}
    /\ \E a \in FreeAddress :
           Enlist([info EXCEPT ![h] = [Unset EXCEPT !.address = a, !.period = period, !.oneshot = oneshot,
                                                    !.tracked = t \in objects,
                                                    !.last_expected = now, !.next_expected = now + period]],
                  Append(waiting_, h))
    /\ UNCHANGED <<clock, objects, changes, thread, queue, lost, fired>>

\* Mutant: remove() does not take timers_mutex_.
StopUnlocked(c, t) ==
    LET h == timer_handle_[t] IN
    /\ MayCall(c, "stop")
    /\ h # None
    /\ timer_handle_' = [timer_handle_ EXCEPT ![t] = None]
    /\ timers_' = timers_ \ {h}
    /\ waiting_' = Filter(waiting_, TimerHandle \ {h})
    /\ removing' = [removing EXCEPT ![c] = h]
    /\ UNCHANGED <<clock, objects, starts, changes, info, new_timer_, thread, callbacks, id_info, calling, history>>

\* Timer::stop(): remove() forgets the timer ...
Stop(c, t) ==
    LET h == timer_handle_[t] IN
    /\ MayCall(c, "stop") /\ MutexFree
    /\ h # None
    /\ timer_handle_' = [timer_handle_ EXCEPT ![t] = None]
    /\ timers_' = timers_ \ {h}
    /\ waiting_' = Filter(waiting_, TimerHandle \ {h})
    /\ removing' = [removing EXCEPT ![c] = h]
    /\ UNCHANGED <<clock, objects, starts, changes, info, new_timer_, thread, callbacks, id_info, calling, history>>

\* ... and, when it has left the mutex, takes its callback out of the queue by
\* the address; a callback that is being called is waited for, but for one's own.
RemoveByID(c) ==
    LET a == info[removing[c]].address
        queued == {h \in ToSet(callbacks) : info[h].address = a} IN
    /\ removing[c] # None
    /\ c = "user" /\ calling.handle # None /\ a \in id_info => info[calling.handle].address # a
    /\ id_info' = id_info \ {a}
    /\ IF a \in id_info
       THEN /\ callbacks' = Filter(callbacks, TimerHandle \ queued)
            /\ lost' = lost \cup (queued \cap timers_)
       ELSE UNCHANGED <<callbacks, lost>>
    /\ removing' = [removing EXCEPT ![c] = None]
    /\ UNCHANGED <<clock, handles, manager, thread, calling, fired, jumped>>


\* setPeriod(): when the next call is expected after the change.
Rescheduled(i, period, reset) ==
    LET elapsed == now - i.last_real IN
    [i EXCEPT !.period = period,
              !.next_expected = CASE reset -> now + period
                                  [] ~reset /\ elapsed < i.period /\ elapsed > period -> now
                                  [] ~reset /\ elapsed < i.period /\ elapsed <= period -> i.last_real + period
                                  [] OTHER -> @]

SetPeriod(c, t, period, reset) ==
    LET h == timer_handle_[t] IN
    /\ MayCall(c, "setPeriod") /\ MutexFree
    /\ h # None /\ changes < regime.changes
    /\ changes' = changes + 1
    /\ Enlist([info EXCEPT ![h] = Rescheduled(@, period, reset)], waiting_)
    /\ UNCHANGED <<clock, timer_handle_, objects, starts, timers_, thread, queue, lost, fired>>

-----------------------------------------------------------------------------
(* threadFunc().                                                                *)

\* A clock that was set back changes what is expected; nothing is sorted again.
Reset(i) == IF now < i.last_expected
            THEN [i EXCEPT !.last_expected = now, !.next_expected = now + i.period] ELSE i

\* The thread wakes up for a change, for a timer or because the clock has been set
\* back, and goes through its loop once more.
BeginRound ==
    /\ thread.at = "sleep"
    /\ new_timer_ \/ now >= thread.sleep_end \/ now < thread.current
    /\ new_timer_' = FALSE
    /\ info' = IF now < thread.current THEN [h \in TimerHandle |-> IF h \in timers_ THEN Reset(info[h]) ELSE info[h]]
                                       ELSE info
    /\ jumped' = (jumped \/ info' # info)
    /\ thread' = [thread EXCEPT !.at = "queue", !.current = now, !.last = None]
    /\ UNCHANGED <<clock, handles, timers_, waiting_, queue, lost, fired>>

\* The first timer that waits is due: its callback goes to the queue.
QueueDue ==
    /\ thread.at = "queue" /\ waiting_ # <<>>
    /\ LET h == Head(waiting_) IN
       /\ info[h].next_expected <= thread.current
       /\ callbacks' = Append(callbacks, h)
       /\ thread' = [thread EXCEPT !.at = "enter", !.current = now, !.last = h]
    /\ waiting_' = Tail(waiting_)
    /\ UNCHANGED <<clock, handles, timers_, info, new_timer_, id_info, calling, removing, history>>

\* CallbackQueue::addCallback() enters the owner of a callback after the callback.
EnterID ==
    /\ thread.at = "enter"
    /\ id_info' = id_info \cup {info[thread.last].address}
    /\ thread' = [thread EXCEPT !.at = "queue"]
    /\ UNCHANGED <<clock, handles, manager, callbacks, calling, removing, history>>

\* Until when to sleep: the first that waits, else the one that was queued last.
SleepEnd ==
    CASE waiting_ # <<>> -> info[Head(waiting_)].next_expected
      [] waiting_ = <<>> /\ thread.last # None -> info[thread.last].next_expected
      [] OTHER -> thread.current + 1

Sleep ==
    /\ thread.at = "queue"
    /\ waiting_ # <<>> => info[Head(waiting_)].next_expected > thread.current
    /\ thread' = [thread EXCEPT !.at = "sleep", !.sleep_end = SleepEnd]
    /\ UNCHANGED <<clock, handles, manager, queue, history>>

-----------------------------------------------------------------------------
(* A thread that calls what is in the callback queue.                           *)

\* Does TimerQueueCallback::call() find the timer and the object it is bound to?
Callable(h) ==
    /\ h \in timers_
    /\ info[h].tracked => \E t \in objects : timer_handle_[t] = h

Call ==
    /\ calling = Nothing /\ callbacks # <<>>
    /\ LET h == Head(callbacks)
           known == info[h].address \in id_info IN
       IF known /\ Callable(h)
       THEN /\ calling' = [handle |-> h, real |-> now]
            /\ fired' = [fired EXCEPT ![h] = @ + 1]
            /\ UNCHANGED lost
       ELSE /\ lost' = IF ~known /\ h \in timers_ THEN lost \cup {h} ELSE lost
            /\ UNCHANGED <<calling, fired>>
    /\ callbacks' = Tail(callbacks)
    /\ UNCHANGED <<clock, handles, manager, thread, id_info, removing, jumped>>

\* Mutant: oneshot is not looked at.
UpdateNextRepeats(i) ==
    [i EXCEPT !.last_expected = i.next_expected, !.next_expected = @ + i.period]

\* updateNext(): a timer that is late by more than a period starts anew.
UpdateNext(i) ==
    LET next == IF i.next_expected <= now THEN i.next_expected + i.period ELSE i.next_expected IN
    IF i.oneshot THEN [i EXCEPT !.next_expected = Never]
    ELSE [i EXCEPT !.last_expected = IF i.next_expected <= now THEN i.next_expected ELSE @,
                   !.next_expected = IF next + i.period < now THEN now ELSE next]

\* Mutant: schedule() does not look whether the timer has been removed.
ReturnAnyway ==
    LET h == calling.handle IN
    /\ h # None /\ removing["callback"] = None /\ MutexFree
    /\ calling' = Nothing
    /\ Enlist([info EXCEPT ![h] = UpdateNext([@ EXCEPT !.last_real = calling.real])],
              Append(waiting_, h))
    /\ UNCHANGED <<clock, handles, timers_, thread, callbacks, id_info, removing, lost, fired>>

\* The callback returns, and schedule() lets the timer wait again.
Return ==
    LET h == calling.handle IN
    /\ h # None /\ removing["callback"] = None /\ MutexFree
    /\ calling' = Nothing
    /\ IF h \in timers_
       THEN Enlist([info EXCEPT ![h] = UpdateNext([@ EXCEPT !.last_real = calling.real])],
                   Append(waiting_, h))
       ELSE UNCHANGED <<info, waiting_, new_timer_, jumped>>
    /\ UNCHANGED <<clock, handles, timers_, thread, callbacks, id_info, removing, lost, fired>>

-----------------------------------------------------------------------------
Operation(c) ==
    \/ \E s \in regime.settings : Start(c, s.timer, s.period, s.oneshot)
    \/ \E t \in Timer : Stop(c, t)
    \/ \E t \in Timer, period \in regime.periods, reset \in BOOLEAN : SetPeriod(c, t, period, reset)

ManagerThread == BeginRound \/ QueueDue \/ EnterID \/ Sleep
Spinner == Call \/ Return

Next ==
    \/ Tick \/ SetBack \/ \E t \in Timer : ObjectDies(t)
    \/ \E c \in Caller : Operation(c) \/ RemoveByID(c)
    \/ ManagerThread \/ Spinner

\* Time passes, threads run and a call of remove() goes on; nobody has to call.
Fairness ==
    /\ WF_vars(Tick) /\ WF_vars(ManagerThread) /\ WF_vars(Spinner)
    /\ \A c \in Caller : WF_vars(RemoveByID(c))

Spec == Init /\ [][Next]_vars /\ Fairness

-----------------------------------------------------------------------------
TimerInfo ==
    [address : Address \cup {None}, period : Nat, oneshot : BOOLEAN, tracked : BOOLEAN,
     last_expected : Nat, next_expected : Nat, last_real : Int]

TypeOK ==
    /\ now \in Instant /\ setbacks \in 0 .. regime.setbacks /\ changes \in 0 .. regime.changes
    /\ timer_handle_ \in [Timer -> TimerHandle \cup {None}]
    /\ objects \subseteq Timer /\ starts \in 0 .. regime.starts
    /\ timers_ \subseteq 1 .. starts
    /\ info \in [TimerHandle -> TimerInfo]
    /\ waiting_ \in Seq(TimerHandle) /\ callbacks \in Seq(TimerHandle)
    /\ new_timer_ \in BOOLEAN /\ jumped \in BOOLEAN
    /\ thread \in [at : {"queue", "enter", "sleep"}, current : Instant, sleep_end : Nat,
                   last : TimerHandle \cup {None}]
    /\ id_info \subseteq Address
    /\ calling \in [handle : TimerHandle \cup {None}, real : Instant]
    /\ removing \in [Caller -> TimerHandle \cup {None}]
    /\ lost \subseteq TimerHandle /\ fired \in [TimerHandle -> Nat]

Expected(h) == info[h].next_expected
ObjectGone(h) == info[h].tracked /\ \A t \in objects : timer_handle_[t] # h

\* The thread never sleeps past the time at which a waiting timer is expected,
\* whatever was started, stopped, changed or rescheduled while it slept, but for
\* the time between a clock that was set back and the next sort.
SleepsNoLonger ==
    ~jumped =>
        /\ \A i, j \in DOMAIN waiting_ : i < j => Expected(waiting_[i]) <= Expected(waiting_[j])
        /\ thread.at = "sleep" /\ ~new_timer_ => \A h \in ToSet(waiting_) : thread.sleep_end <= Expected(h)

Places(h) ==
    Cardinality({i \in DOMAIN waiting_ : waiting_[i] = h}) + Cardinality({i \in DOMAIN callbacks : callbacks[i] = h})
      + (IF calling.handle = h THEN 1 ELSE 0)

\* A timer that has been started and not stopped is in exactly one place, in
\* waiting_, in the callback queue or being called: in two its callbacks would
\* double, in none it would never be called again.  In none are only those the
\* callback queue has dropped, and those whose object has died.  And it is not slept
\* through in waiting_.
TimerInOnePlace ==
    /\ TypeOK
    /\ \A h \in timers_ : Places(h) = 1 \/ (Places(h) = 0 /\ (h \in lost \/ ObjectGone(h)))
    /\ ToSet(waiting_) \subseteq timers_
    /\ SleepsNoLonger

\* While the clock is not set back and the period not changed, a timer is not
\* called more often than its period allows, however late its callbacks were,
\* and a oneshot timer is called once.
NoMoreThanDue ==
    setbacks = 0 /\ changes = 0 =>
        \A h \in 1 .. starts : /\ fired[h] * info[h].period <= now
                              /\ info[h].oneshot => fired[h] <= 1

\* When stop() returns to the user no callback of the timer is in the queue or
\* being called.
StopIsFinal ==
    [][\A h \in TimerHandle :
          removing["user"] = h /\ removing'["user"] = None
             => calling'.handle # h /\ h \notin ToSet(callbacks')]_vars

\* When the clock has stopped, every timer that was due has been called and waits
\* for a later time, or is one of those TimerInOnePlace excepts.
DueIsCalled ==
    <>[](\/ jumped
         \/ \A h \in timers_ : \/ h \in ToSet(waiting_) /\ Expected(h) > now
                              \/ h \in lost \/ ObjectGone(h))
=============================================================================
