CONSTANTS
  None = None
  Instances = {i1, i2}
  Super = "super_admin"
  Guest = "guest"
  Custom = {"auditor", "viewer"}
  Listed = 3
  Getters = {2}
  Sorted <- MCSorted
  Texts <- MCTexts
  NoText = None
  Absent = Missing
  Days <- MCDays
  Indexed = "name"
  Within <- MCWithin
  Words <- MCWords
  Reads <- MCReads
  Least = "-Infinity"
  Greatest = "Infinity"
  Content <- MCContent
  Queries <- MCQueries
  Meant <- MCMeant
  Limits = {0, 1, 2}
  DefaultLimit = 2
  Activities <- MCActivities
  MaxChanges = 2
  MaxCrashes = 1
SPECIFICATION FairSpec
INVARIANTS
  SeededWhole
  AllowedWasGranted
  ListIsRead
  SearchIsAnswered
PROPERTIES
  EveryoneStarts
  WalkEnds
\* A client may have read its list, and a request been decided.
CHECK_DEADLOCK FALSE
