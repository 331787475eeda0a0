SPECIFICATION Spec
CONSTANTS
  NULL = NULL
  c1 = c1  c2 = c2  c3 = c3
  a1 = a1  a2 = a2
  r1 = r1  r2 = r2  r3 = r3
  s1 = s1
  Calls <- ThreeCalls
  Auctions = {a1}
  Requests = {r1, r2, r3}
  Bidders <- RawBidders
  strip <- StripBidder
  Commands <- TiedCommands
  Listings <- ScheduledListing
  MaxMoney = 5
  MaxAttempts = 1
  PoolSize = 3
  MaxTime = 2
SYMMETRY CallSymmetry
INVARIANTS
  OutcomesAgree
  RowsDescribeABid
  CheckerIsExact
PROPERTIES
  SequentialIsSerial
