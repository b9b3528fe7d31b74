CONSTANTS
    Regime <- Regimes
SPECIFICATION Spec
INVARIANTS AnswersOwnRequest NoOrphans
PROPERTIES NoCallAfterUnadvertise CallsReturn
CHECK_DEADLOCK FALSE
