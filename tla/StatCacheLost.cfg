SPECIFICATION Spec
CONSTANTS
  p1 = p1
  p2 = p2
  k1 = k1
  k2 = k2
  b1 = b1
  b2 = b2
  NoKey = NoKey
  NoBucket = NoBucket
  Procs = {p1, p2}
  Keys = {k1, k2}
  Buckets = {b1, b2}
  KeysOf <- MCKeysOf
  BucketsOf <- MCBucketsOf
  MaxAdds = 2
  MaxCrashes = 1
INVARIANTS
  EveryRequestCounted
CHECK_DEADLOCK FALSE
