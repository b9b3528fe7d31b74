CONSTANTS
    Regime <- Broken
SPECIFICATION Spec
INVARIANT ClearedCallsFail
CHECK_DEADLOCK FALSE
