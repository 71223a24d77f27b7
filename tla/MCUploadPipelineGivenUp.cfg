CONSTANTS
  Batches = 2
  ProgressEvery = 10
  Formats <- MCFormats
  Environments <- MCCrashing
  Attempts = 2
  MaxStalls = 1
  MaxCrashes = 2
  MaxOverdue = 1
SPECIFICATION Spec
PROPERTY FailedJobIsHandled
CHECK_DEADLOCK FALSE
