SPECIFICATION MCSpec
CONSTANTS
  CompletionWindow = 60
  Threshold = 2
  Cooldown = 40
  JobBatches = {1, 2}
  FlexBatches = {3}
  FlexRequests = 2
  FlexRetries = 1
  NoAdapter = {}
  Strategies = {"linear", "backoff", "deadline-aware", "eager", "daily"}
  TickEvery = 16
  MaxTime = 176
  MaxFaults = 1
  MaxRestarts = 2
  MaxOrphans = 1
INVARIANTS
  FoundInTime
  EndedHasResults
PROPERTIES
  CooldownHolds
CHECK_DEADLOCK FALSE
