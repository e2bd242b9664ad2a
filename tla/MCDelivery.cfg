SPECIFICATION MCSpec
CONSTANTS
  Results = {1, 2}
  HasTarget = {2}
  BatchSize = 2
  MaxDelivery = 2
  FaultKinds = {"late", "store", "log"}
  MaxFaults = 1
  MaxCrashes = 1
  MaxRedeliveries = 1
  Users = {"ann", "bob"}
  UserOf <- TwoUsers
  Policies <- FourPolicies
  DefaultPolicy <- OneDay
  HardCap = 2
  MaxAge = 3
INVARIANTS
  DeliveryTypeOK
  DeliveredWasReceived
  SentWithinBudget
  DeliveredOnce
  DeliveryInv
  AckWaitsForReceipt
PROPERTIES
  DeliveredIsFinal
  SweepLeavesNothingOverdue
  EveryResultIsDecided
