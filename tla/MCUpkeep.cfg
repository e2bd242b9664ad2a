SPECIFICATION MCSpec
CONSTANTS
  Processes <- TwoProcesses
  Webs = {"web"}
  Shipped <- Releases
  MaxTrouble = 1
  MaxRestarts = 1
  ApiKeys = {1, 2, 3}
  OldKey = "old"
  Rotations = {"first", "second"}
  NewKeyOf <- NewKeys
  PageSize = 1
  MaxLateRows = 1
  ClaudePages <- ClaudeVersions
  OpenAIPages <- OpenAIVersions
  ModelIds <- ModelNames
  KnownPrice <- Prices
  Seed <- Curated
  MaxUpstream = 1
INVARIANTS
  MigratedOnce
  RowsShareAKey
  ClaudeRowsWerePublished
PROPERTIES
  CatalogCatchesUp
CHECK_DEADLOCK FALSE
