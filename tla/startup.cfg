SPECIFICATION FairSpec
CONSTANTS
  NULL = NULL
  Invalid = Invalid
  half = half  NaN = NaN
  Fractions = {half, NaN}
  p1 = p1  p2 = p2  p3 = p3
  Servers = {p1, p2}
  Tools = {p3}
  PoolOwners = {p1}
  Releases <- ShippedReleases
  Broken <- BrokenFiles
  lower <- LowerCase
  Environments <- TestEnvironments
INVARIANTS
  StartupTypeOK
  RecordsMatchSchema
  ServersAreCurrent
  NoCollisions
  PoolsAreReturned
PROPERTIES
  ImplementsHistory
  StartsEnd
