SPECIFICATION MCSpec
CONSTANTS
  Calls = {c1, c2}
  ChatItems = {m1}
  Items <- AllItems
  Size <- UnitSize
  MaxRequests = 2
  MaxBytes = 4
  Timer = Timer
  FlushApi = FlushApi
  NoOne = NoOne
  NotRead = NotRead
  LimitSettings <- RequestLimits
  MaxLimit = 2
  Windows <- AllTiers
  MaxTime = 2
  MaxTokens = 1
  Unlimited = Unlimited
  NoRow = NoRow
INVARIANTS
  QuotaHolds
  MinimumThroughput
  WaitingIsCounted
CHECK_DEADLOCK FALSE
SYMMETRY CallSymmetry
