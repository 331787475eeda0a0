SPECIFICATION TrialSpec
CONSTANTS
  NULL = NULL
  Calls = {1, 2, 3}
  Auctions = {1, 2, 3}
  Requests = {1, 2, 3}
  Bidders = {1, 2, 3}
  strip <- Identity
  Commands <- TrialCommands
  Listings = {}
  Price = 1
  Increment = 2
  MaxMoney = 7
  MaxAttempts = 2
  PoolSize = 2
  MaxTime = 0
  Concurrency = 2
  MaxTimeouts = 1
CHECK_DEADLOCK FALSE
INVARIANTS
  FalseAlarmsNeedAStraggler
  CountsMatchBids
  NextTrialIsClean
  PercentileIsNearestRank
PROPERTIES
  TrialEnds
