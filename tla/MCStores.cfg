SPECIFICATION MCSpec
CONSTANTS
  Requests = {1, 2}
  Batches = {1}
  UserOf <- TwoUsers
  Models <- ThreeModels
  ModelOf <- TwoModels
  Keys = {"main", "spare"}
  KeyOwner <- OneOwner
  KeyRank <- TwoRanks
  Amounts <- SomeAmounts
  Entities <- SomeEntities
  MaxTime = 2
  Undefined = Undefined
  Unlimited = Unlimited
INVARIANTS
  RowsAgree
  AnswersAgree
  ScrubCompletes
CHECK_DEADLOCK FALSE
