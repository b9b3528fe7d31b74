SPECIFICATION MCSpec
CONSTANTS
  Topics = {"gps", "img"}
  Times = {1, 2, 3}
  Modes <- AllModes
  Thresholds = {2}
  InitialThreshold = 1
  MaxMsgs = 4
  MaxOpens = 4
  MaxCrashes = 1
  MaxFaults = 2
  Queries <- MCQueries
  MaxQueries = 2
  RegimeNames = {"record", "append", "salvage", "reading", "viewing", "faults"}
INVARIANTS IndexMatchesFile OpenedBagIsComplete VisitsInOrder
PROPERTY SealedDataStays
CHECK_DEADLOCK FALSE
