SPECIFICATION MCSpec
CONSTANTS
    Regimes <- AllRegimes
    User = {1, 2}
    BodySizes = {0, 3, 5}
    Payload = 2
    FirstId = 254
    Bound <- MCBound
INVARIANTS NothingForgotten WholeOrNothing
PROPERTIES Completes
CHECK_DEADLOCK FALSE
