SPECIFICATION OneTrouble
CONSTANTS
  Requests = {1, 2}
  Batches = {1, 2, 3}
  Groups = {0}
  GroupOf <- OneGroup
  MaxRetries = 1
  MaxAttempts = 2
  Retirable = {}
  FaultKinds = {"rejected", "timed_out", "store", "ingest", "stream"}
  MaxFaults = 1
  MaxCrashes = 1
  MaxUserRetries = 0
  FlushLimit = 2
  ChunkLimit = 2
  Oversized = {}
  Unserved = {}
  ProviderOutcomes = {"ended", "expired", "failed"}
  SlowSubmit = FALSE
  CrashInHandler = TRUE
INVARIANTS
  TypeOK
  InFlightHasRef
  SubmissionsCounted
  WaitingIsInJob
  AssignmentMatchesStatus
  PaidOnce
  SucceededHasResult
  SubmissionInv
PROPERTIES
  ImplementsLifecycle
  SuccessIsFinal
  BatchMovesForward
  KnownJobNotResubmitted
