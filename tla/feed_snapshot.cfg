SPECIFICATION Spec
CONSTANTS
  NULL = NULL
  c1 = c1  c2 = c2  c3 = c3
  a1 = a1  a2 = a2
  r1 = r1  r2 = r2  r3 = r3
  s1 = s1
  Calls <- TwoCalls
  Auctions = {a1}
  Requests = {r1, r2}
  Bidders <- RawBidders
  strip <- StripBidder
  Commands <- FeedCommands
  Listings <- OpenListing
  MaxMoney = 3
  MaxAttempts = 1
  PoolSize = 1
  MaxTime = 0
  Sockets = {s1}
  Bodies <- FeedBodies
INVARIANTS
  SnapshotIsCurrent
CHECK_DEADLOCK FALSE
