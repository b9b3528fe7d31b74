SPECIFICATION MCSpec
CONSTANTS
    MaxTime = 4
    Second = 3
    Half = 8
    RateRegime <- Rates
INVARIANTS SentInOrder BetweenNeighbours NoGyroLost ArithmeticExact KeepsRate
CHECK_DEADLOCK FALSE
