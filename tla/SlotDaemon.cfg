SPECIFICATION Spec
CONSTANTS
  s1 = s1
  s2 = s2
  s3 = s3
  Starts = {s1, s2, s3}
  NoStart = NoStart
  MaxProgress = 3
  MaxDeaths = 1
INVARIANTS
  TypeOK
  CachedAsAsked
  NothingOwed
CHECK_DEADLOCK FALSE
