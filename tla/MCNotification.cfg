CONSTANTS
  None = None
  Notifications = {n1, n2}
  Percents <- MCPercents
  MaxAttempts = 3
  MaxStalls = 1
  MaxCrashes = 2
SPECIFICATION Spec
INVARIANTS
  DeliveryIsBounded
  FailureIsNeverFinal
  PendingIsShortByFailures
  DeliveredInOrder
PROPERTIES
  JobsSettle
\* Every notification may be done.
CHECK_DEADLOCK FALSE
