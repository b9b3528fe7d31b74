--------------------------- MODULE MCTimerManager ---------------------------
(* TimerManager with two timers, in four regimes.                               *)
EXTENDS TimerManager

CONSTANTS t1, t2

Periodic(t, period) == [timer |-> t, period |-> period, oneshot |-> FALSE, tracked |-> FALSE]
Oneshot(t, period) == [timer |-> t, period |-> period, oneshot |-> TRUE, tracked |-> FALSE]
Tracked(s) == [s EXCEPT !.tracked = TRUE]

\* Timers are started and stopped by the user and by callbacks, and started again.
Restarts ==
    [time |-> 2, starts |-> 3, settings |-> {Periodic(t1, 1), Periodic(t2, 1)},
     periods |-> {}, changes |-> 0, setbacks |-> 0,
     calls |-> {"user", "callback"} \X {"start", "stop"}]
\* The object of one dies.
ObjectsDie ==
    [time |-> 2, starts |-> 2, settings |-> {Periodic(t1, 1), Tracked(Oneshot(t2, 1))},
     periods |-> {}, changes |-> 0, setbacks |-> 0,
     calls |-> {"user"} \X {"start", "stop"}]
\* The clock is set back.
SetsBack ==
    [time |-> 2, starts |-> 2, settings |-> {Periodic(t1, 1), Periodic(t2, 2)},
     periods |-> {}, changes |-> 0, setbacks |-> 1,
     calls |-> {<<"user", "start">>}]
\* Periods are changed.
Changes ==
    [time |-> 3, starts |-> 2, settings |-> {Periodic(t1, 2), Oneshot(t2, 1)},
     periods |-> {1, 3}, changes |-> 1, setbacks |-> 0,
     calls |-> {<<"user", "start">>, <<"user", "setPeriod">>, <<"callback", "setPeriod">>}]
Regimes == {Restarts, ObjectsDie, SetsBack, Changes}
=============================================================================
