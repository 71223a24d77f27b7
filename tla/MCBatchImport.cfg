CONSTANTS
  BatchSize = 2
  MaxErrors = 3
  MaxFileRows = 5
  ProgressEvery <- MCProgressEvery
  Files <- MCFiles
SPECIFICATION Spec
INVARIANTS
  TypeOK
  StoredAtMostOnce
  SuccessIsStored
  NoRowUnaccounted
  UncountedRowsAreInDoubt
  BooksAtReturn
PROPERTIES
  ImplementsContract
  AttemptEnds
\* An attempt ends: afterwards only the transaction service has steps left.
CHECK_DEADLOCK FALSE
