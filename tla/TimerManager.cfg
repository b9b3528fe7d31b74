CONSTANTS
    t1 = t1
    t2 = t2
    Timer = {t1, t2}
    Address = {1, 2}
    Regime <- Regimes
    MaxStarts = 3
    MaxTime = 3
SPECIFICATION Spec
INVARIANTS TimerInOnePlace NoMoreThanDue
PROPERTIES StopIsFinal DueIsCalled
CHECK_DEADLOCK FALSE
