SPECIFICATION MCSpec
CONSTANTS
  Calls = {c1, c2}
  ChatItems = {m1}
  Items <- AllItems
  Size <- UnitSize
  MaxRequests = 2
  MaxBytes = 4
  Timer = Timer
  FlushApi = FlushApi
  NoOne = NoOne
  NotRead = NotRead
  LimitSettings <- TokenLimit
  MaxLimit = 1
  Windows <- NoWindow
  MaxTime = 2
  MaxTokens = 1
  Unlimited = Unlimited
  NoRow = NoRow
INVARIANT ExpiredPeriodIsReset
CHECK_DEADLOCK FALSE
