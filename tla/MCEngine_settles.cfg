SPECIFICATION FairSpec
CONSTANTS
  Requests = {1}
  Batches = {1, 2, 3, 4}
  Groups = {0}
  GroupOf <- OneGroup
  MaxRetries = 1
  MaxAttempts = 3
  Retirable = {}
  FaultKinds = {"timed_out"}
  MaxFaults = 1
  MaxCrashes = 1
  MaxUserRetries = 0
  FlushLimit = 2
  ChunkLimit = 2
  Oversized = {}
  Unserved = {}
  ProviderOutcomes = {"ended"}
  SlowSubmit = FALSE
  CrashInHandler = FALSE
PROPERTIES
  EveryRequestSettles
