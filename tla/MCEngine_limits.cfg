SPECIFICATION FairSpec
CONSTANTS
  Requests = {1, 2, 3}
  Batches = {1, 2, 3}
  Groups = {0, 1, 2, 3}
  GroupOf <- FourGroups
  MaxRetries = 0
  MaxAttempts = 2
  Retirable = {2}
  FaultKinds = {"rejected", "timed_out", "store", "ingest", "stream"}
  MaxFaults = 0
  MaxCrashes = 0
  MaxUserRetries = 1
  FlushLimit = 2
  ChunkLimit = 2
  Oversized = {1}
  Unserved = {}
  ProviderOutcomes = {"ended"}
  SlowSubmit = FALSE
  CrashInHandler = FALSE
PROPERTIES
  ImplementsLifecycle
  EveryRequestSettles
