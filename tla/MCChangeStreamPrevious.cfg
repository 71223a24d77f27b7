CONSTANTS
  Keys = {k1, k2}
  Collected = {k1, k2}
  MaxWrites = 3
  MaxErrors = 0
SPECIFICATION Spec
INVARIANT PreviousIsAvailable
\* Nobody has to write to the database.
CHECK_DEADLOCK FALSE
