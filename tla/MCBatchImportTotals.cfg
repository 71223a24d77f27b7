CONSTANTS
  BatchSize = 2
  MaxErrors = 3
  MaxFileRows = 3
  ProgressEvery <- MCProgressEvery
  Files <- MCFiles
SPECIFICATION Spec
INVARIANT TotalsAddUp
CHECK_DEADLOCK FALSE
