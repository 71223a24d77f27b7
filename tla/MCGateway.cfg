CONSTANTS
  None = None
  Nobody = None
  First = First
  Calls = {c1, c2, c3}
  Emails = {e1, e2}
  AccessLife = 2
  RefreshLife = 1
  ResetLife = 1
  MaxClock = 2
  Scenarios <- MCScenarios
  Connected <- MCConnected
  Owners <- MCOwners
  Sockets = {k1, k2}
  MaxRequests = 2
  Rooms = {room}
SYMMETRY MCSymmetry
SPECIFICATION GatewaySpec
INVARIANTS
  TypeOK
  LostUpdateNeedsOverlap
  RevocationReaches
  AccountsAreWhole
  NoSessionForTheGone
  OnlineIsStored
  StaleEntriesAreLateChecks
  StoredWasAuthentic
  EndsOnlyForTheGone
\* Every request may be done.
CHECK_DEADLOCK FALSE
