SPECIFICATION MCSpec
CONSTANTS
  Requests = {1, 2}
  Batches = {1, 2, 3}
  Groups = {0}
  GroupOf <- OneGroup
  MaxRetries = 0
  MaxAttempts = 2
  Retirable = {}
  FaultKinds = {"rejected", "timed_out", "store"}
  MaxFaults = 1
  MaxCrashes = 1
  MaxUserRetries = 0
  Keys <- ThreeKeys
  Priority <- InOrder
  ForFailover = {"primary", "backup"}
  FlushLimit = 2
  MaxLimited = 2
INVARIANTS
  FlushSubmitsFresh
  ClosedBatchIsEmpty
  FailoverLeavesNothing
CHECK_DEADLOCK FALSE
