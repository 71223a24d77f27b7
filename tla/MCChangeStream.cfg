CONSTANTS
  Keys = {k1, k2}
  Collected = {k1}
  MaxWrites = 4
  MaxErrors = 2
SPECIFICATION Spec
INVARIANTS
  CacheKeepsUp
  ReportsAreChained
PROPERTIES
  StreamRecovers
\* Nobody has to write to the database.
CHECK_DEADLOCK FALSE
