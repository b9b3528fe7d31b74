SPECIFICATION Spec
CONSTANTS
  MaxRecs = 2
  MaxSamples = 2
  MaxSeconds = 2
  MaxReplays = 1
INVARIANTS RecordedIsPrefix FinishedIsComplete SignMeansRecording
CHECK_DEADLOCK FALSE
