------------------------------ MODULE RosTime ------------------------------
(* rostime: instants and durations of a signed or unsigned number of seconds     *)
(* and a number of nanoseconds, the clock (the system's, or one that is set by   *)
(* messages), and Rate, by which a loop keeps a cycle.  A clock may be set while  *)
(* the loop runs and while it sleeps.                                             *)
EXTENDS Integers

CONSTANTS
    Second,       \* nanoseconds in a second
    Half,         \* half of what a number of seconds can be: 2^31, for one of 32 bits
    RateRegime    \* which clock, which cycle, and what happens how often

Full == 2 * Half

\* cycle     of the Rate, in nanoseconds
\* length    bound: nanoseconds that go by
\* jumps     bound: times the clock is set, by one of "by"
ASSUME RosTimeAssumption ==
    /\ {Second, Half} \subseteq Nat \ {0} /\ 2 * Second <= Half
    /\ \A r \in RateRegime :
          /\ r.simulated \in BOOLEAN /\ {r.cycle, r.length, r.jumps} \subseteq Nat /\ r.cycle > 0
          /\ r.by \subseteq Int

Time == [sec : 0 .. Full - 1, nsec : 0 .. Second - 1]
Duration == [sec : - Half .. Half - 1, nsec : 0 .. Second - 1]
Thrown == [sec |-> 0, nsec |-> Second]

-----------------------------------------------------------------------------
(* Arithmetic.  Division in C goes towards zero, and a sum of seconds that a     *)
(* signed number cannot hold wraps.                                              *)
Wrapped(s) == ((s + Half) % Full) - Half
Quotient(n) == IF n < 0 THEN - ((- n) \div Second) ELSE n \div Second
Remainder(n) == n - Second * Quotient(n)

\* Mutant: a negative remainder takes no second.
CarriedUp(sec, nsec, least, most) ==
    LET rest == Remainder(nsec)
        whole == sec + Quotient(nsec)
    IN  IF whole < least \/ whole > most THEN Thrown
        ELSE [sec |-> whole, nsec |-> IF rest < 0 THEN rest + Second ELSE rest]

\* normalizeSecNSec...(), in 64 bits.
Carried(sec, nsec, least, most) ==
    LET rest == Remainder(nsec)
        borrow == IF rest < 0 THEN 1 ELSE 0
        whole == sec + Quotient(nsec) - borrow
    IN  IF whole < least \/ whole > most THEN Thrown
        ELSE [sec |-> whole, nsec |-> rest + borrow * Second]

NewTime(sec, nsec) == Carried(sec, nsec, 0, Full - 1)
NewDuration(sec, nsec) == Carried(sec, nsec, - Half, Half - 1)

Plus(t, d) == NewTime(t.sec + d.sec, t.nsec + d.nsec)
Minus(t, u) == NewDuration(Wrapped(Wrapped(t.sec) - Wrapped(u.sec)), t.nsec - u.nsec)
DurationPlus(d, e) == NewDuration(Wrapped(d.sec + e.sec), d.nsec + e.nsec)
Negated(d) == NewDuration(Wrapped(- d.sec), - d.nsec)
Less(x, y) == x.sec < y.sec \/ (x.sec = y.sec /\ x.nsec < y.nsec)
AtMost(x, y) == x.sec < y.sec \/ (x.sec = y.sec /\ x.nsec <= y.nsec)
IsZero(x) == x.sec = 0 /\ x.nsec = 0
TimeFromNSec(n) == NewTime(0, n)
DurationFromNSec(n) == NewDuration(Wrapped(Quotient(n)), Remainder(n))
ToNSec(x) == x.sec * Second + x.nsec
Zero == [sec |-> 0, nsec |-> 0]
TimeMax == [sec |-> Full - 1, nsec |-> Second - 1]

-----------------------------------------------------------------------------
VARIABLES
    rate_regime,
    instant,      \* the time of the clock; g_sim_time
    g_stopped,
    start_,       \* of the Rate
    sleeper,      \* where its thread is, and the sleep it is in
    elapsed,      \* history: nanoseconds that have gone by
    slept,        \* history: calls of Rate::sleep()
    jumps,        \* history: times the clock was set
    met           \* history: what the last sleep() returned, when, and whether the cycle was reset

rateVars == <<rate_regime, instant, g_stopped, start_, sleeper, elapsed, slept, jumps, met>>
UseSimTime == rate_regime.simulated
Cycle == DurationFromNSec(rate_regime.cycle)

Awake == [at |-> "loop", length |-> Zero, left |-> 0, start |-> Zero, end |-> Zero, jumps |-> 0]

\* Rate's constructor.
RateInit(r, t) ==
    /\ rate_regime = r /\ instant = t /\ g_stopped = FALSE
    /\ start_ = t /\ sleeper = Awake
    /\ elapsed = 0 /\ slept = 0 /\ jumps = 0
    /\ met = [rate |-> TRUE, back |-> t, begun |-> t, reset |-> FALSE, jumped |-> FALSE]

\* A thread that sleeps by the system's clock is woken when the time has gone by.
TimePasses ==
    /\ elapsed < rate_regime.length /\ (UseSimTime => ~IsZero(instant))
    /\ elapsed' = elapsed + 1
    /\ instant' = Plus(instant, DurationFromNSec(1))
    /\ sleeper' = [sleeper EXCEPT !.left = IF @ = 0 THEN 0 ELSE @ - 1]
    /\ UNCHANGED <<rate_regime, g_stopped, start_, slept, jumps, met>>

\* setNow(), or the system's clock is set.
SetNow ==
    /\ jumps < rate_regime.jumps
    /\ \E n \in rate_regime.by :
          /\ ToNSec(instant) + n > 0
          /\ instant' = TimeFromNSec(ToNSec(instant) + n)
    /\ jumps' = jumps + 1
    /\ UNCHANGED <<rate_regime, g_stopped, start_, sleeper, elapsed, slept, met>>

TimeShutdown ==
    /\ ~g_stopped /\ g_stopped' = TRUE
    /\ UNCHANGED <<rate_regime, instant, start_, sleeper, elapsed, slept, jumps, met>>

Awakes(result) ==
    /\ sleeper' = Awake
    /\ met' = [met EXCEPT !.rate = result, !.back = instant, !.jumped = jumps # sleeper.jumps]

\* Duration::sleep(): the system's clock is not asked again; of another, that has not been
\* set yet, the first time is waited for.
DurationSleep(d) ==
    sleeper' = [at |-> IF UseSimTime THEN "look" ELSE "asleep",
                length |-> d, left |-> IF UseSimTime THEN 0 ELSE ToNSec(d),
                start |-> instant, end |-> IF IsZero(instant) THEN TimeMax ELSE Plus(instant, d),
                jumps |-> jumps]

\* Mutant: a cycle that was missed is made up for.
RateSleepKeepsStart ==
    LET planned == Plus(start_, Cycle)
        expected_end == IF Less(instant, start_) THEN Plus(instant, Cycle) ELSE planned
        sleep_time == Minus(expected_end, instant)
    IN  /\ sleeper.at = "loop" /\ ~g_stopped
        /\ slept' = slept + 1
        /\ start_' = expected_end
        /\ IF AtMost(sleep_time, Zero)
           THEN sleeper' = Awake /\ met' = [met EXCEPT !.rate = FALSE, !.back = instant, !.jumped = FALSE]
           ELSE DurationSleep(sleep_time) /\ met' = [met EXCEPT !.reset = @ \/ expected_end # planned]
        /\ UNCHANGED <<rate_regime, instant, g_stopped, elapsed, jumps>>

\* Rate::sleep().
RateSleep ==
    LET planned == Plus(start_, Cycle)
        expected_end == IF Less(instant, start_) THEN Plus(instant, Cycle) ELSE planned
        sleep_time == Minus(expected_end, instant)
        late == Less(Plus(expected_end, Cycle), instant)
    IN  /\ sleeper.at = "loop" /\ ~g_stopped
        /\ slept' = slept + 1
        /\ start_' = IF late THEN instant ELSE expected_end
        /\ IF AtMost(sleep_time, Zero)
           THEN sleeper' = Awake /\ met' = [met EXCEPT !.rate = FALSE, !.back = instant, !.jumped = FALSE, !.reset = @ \/ late]
           ELSE DurationSleep(sleep_time) /\ met' = [met EXCEPT !.reset = @ \/ expected_end # planned]
        /\ UNCHANGED <<rate_regime, instant, g_stopped, elapsed, jumps>>

\* ros_wallsleep(): a signal ends it once the node has stopped.
WakeUp ==
    /\ sleeper.at = "asleep" /\ (sleeper.left = 0 \/ g_stopped)
    /\ Awakes(~g_stopped)
    /\ UNCHANGED <<rate_regime, instant, g_stopped, start_, elapsed, slept, jumps>>

\* The loop over a clock that is set by messages: a look at it,
Look ==
    /\ sleeper.at = "look"
    /\ IF ~g_stopped /\ Less(instant, sleeper.end)
       THEN sleeper' = [sleeper EXCEPT !.at = "nap"] /\ UNCHANGED met
       ELSE Awakes(TRUE)
    /\ UNCHANGED <<rate_regime, instant, g_stopped, start_, elapsed, slept, jumps>>

\* and what follows a nap.
Nap ==
    /\ sleeper.at = "nap"
    /\ LET start == IF IsZero(sleeper.start) THEN instant ELSE sleeper.start
           end == IF IsZero(sleeper.start) THEN Plus(instant, sleeper.length) ELSE sleeper.end
       IN  IF Less(instant, start) THEN Awakes(FALSE)
           ELSE sleeper' = [sleeper EXCEPT !.at = "look", !.start = start, !.end = end] /\ UNCHANGED met
    /\ UNCHANGED <<rate_regime, instant, g_stopped, start_, elapsed, slept, jumps>>

RateNext == TimePasses \/ SetNow \/ TimeShutdown \/ RateSleep \/ WakeUp \/ Look \/ Nap

-----------------------------------------------------------------------------
RosTimeTypeOK ==
    /\ instant \in Time /\ start_ \in Time
    /\ sleeper.at \in {"loop", "asleep", "look", "nap"}
    /\ sleeper.end \in Time /\ sleeper.length \in Duration

\* What a sum or a difference is, if an instant or a duration can hold it.
TimeOf(n) == IF n \in 0 .. Full * Second - 1
             THEN [sec |-> n \div Second, nsec |-> n % Second] ELSE Thrown
DurationOf(n) == IF n \in - Half * Second .. Half * Second - 1
                 THEN [sec |-> n \div Second, nsec |-> n % Second] ELSE Thrown

\* Sums and differences are exact, and thrown when they cannot be held; as long as their
\* seconds alone can be, which nothing looks at: beyond that they wrap.  The order is that
\* of the nanoseconds.
ArithmeticExact ==
    LET n == ToNSec(instant)
        e == DurationOf(n - Half * Second)
    IN  /\ RosTimeTypeOK
        /\ elapsed + slept + jumps = 0 =>
             /\ TimeFromNSec(n) = instant /\ TimeFromNSec(n + Full * Second) = Thrown
             /\ DurationFromNSec(ToNSec(e)) = e
             /\ \A d \in Duration :
                  /\ Plus(instant, d) = TimeOf(n + ToNSec(d))
                  /\ d.sec # - Half => Plus(instant, Negated(d)) = TimeOf(n - ToNSec(d))
                  /\ d.sec + e.sec \in - Half .. Half - 1 =>
                        DurationPlus(d, e) = DurationOf(ToNSec(d) + ToNSec(e))
                  /\ AtMost(d, e) <=> ToNSec(d) <= ToNSec(e)
             /\ \A t \in Time :
                  /\ t.sec - instant.sec \in - Half .. Half - 1 =>
                        Minus(t, instant) = DurationOf(ToNSec(t) - n)
                  /\ Less(t, instant) <=> ToNSec(t) < n

\* A loop that sleeps by a Rate does not run ahead of it: its calls take a cycle each, by
\* however much some were late, and a clock that is set costs or saves at most three.  It
\* does not drift: the cycles follow each other, unless they were begun anew because the
\* clock was set or one was late by another; and what it is behind by is less than one.
\* It never sleeps longer than a cycle; and if it says that the time was met, it was, or the
\* clock was set meanwhile, or the node has stopped.
KeepsRate ==
    LET cycle == rate_regime.cycle
        returned == IF sleeper.at = "loop" THEN slept ELSE slept - 1
    IN  /\ g_stopped \/ returned * cycle <= elapsed + 3 * jumps * cycle
        /\ met.reset \/ ToNSec(start_) = ToNSec(met.begun) + slept * cycle
        /\ sleeper.at # "loop" => ToNSec(sleeper.length) \in 1 .. cycle
        /\ sleeper.at = "loop" /\ ~g_stopped =>
              IF met.rate THEN met.jumped \/ AtMost(start_, met.back)
              ELSE ToNSec(met.back) - ToNSec(start_) <= cycle
=============================================================================
