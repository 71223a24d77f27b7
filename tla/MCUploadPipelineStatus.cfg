CONSTANTS
  Batches = 2
  ProgressEvery = 10
  Formats <- MCFormats
  Environments <- MCCalm
  Attempts = 2
  MaxStalls = 1
  MaxCrashes = 0
  MaxOverdue = 1
SPECIFICATION Spec
PROPERTY CompletedStatusStays
CHECK_DEADLOCK FALSE
