CONSTANTS
  p1 = p1
  p2 = p2
  p3 = p3
  o1 = o1
  o2 = o2
  Procs = {p1, p2, p3}
  Key = {k1}
  Owner = {o1, o2}
  OwnerOf <- MCOwnerOf
  NoLease = NoLease
  NoCall = NoCall
  TTL = 1
  MaxTime = 2
  MaxVersion = 2
  Callers = {c1, c2}
  BucketKey = {k1}
  NoBucket = NoBucket
  Rate = 2
  Unit = 3
  Burst = 2
  MaxWallClock = 3
  MaxElapsed = 3
  MaxBuckets = 2
CHECK_DEADLOCK FALSE
SPECIFICATION GuardSpec
SYMMETRY Twins
INVARIANTS OneOwnerPerVersion LaterClaimsOutrank GrantsBounded BurstPerReset
