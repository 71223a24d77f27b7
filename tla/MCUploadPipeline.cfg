CONSTANTS
  Batches = 2
  ProgressEvery = 10
  Formats <- MCFormats
  Environments <- MCEnvironments
  Attempts = 2
  MaxStalls = 1
  MaxCrashes = 1
  MaxOverdue = 1
SPECIFICATION Spec
INVARIANTS
  TypeOK
  AcceptedUploadIsWhole
  DuplicatesAreBounded
  OutcomeHappened
  StatusTellsOutcome
PROPERTIES
  RequestIsAnswered
  JobSettles
CHECK_DEADLOCK FALSE
