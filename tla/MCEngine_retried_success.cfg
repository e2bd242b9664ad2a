SPECIFICATION Spec
CONSTANTS
  Requests = {1}
  Batches = {1, 2}
  Groups = {0}
  GroupOf <- OneGroup
  MaxRetries = 1
  MaxAttempts = 2
  Retirable = {}
  FaultKinds = {"rejected", "timed_out", "store", "ingest", "stream"}
  MaxFaults = 0
  MaxCrashes = 0
  MaxUserRetries = 0
  FlushLimit = 2
  ChunkLimit = 2
  Oversized = {}
  Unserved = {}
  ProviderOutcomes = {"ended"}
  SlowSubmit = FALSE
  CrashInHandler = TRUE
INVARIANTS
  SuccessIsIngested
