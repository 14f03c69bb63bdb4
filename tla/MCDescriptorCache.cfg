CONSTANTS
  good = good
  alsoGood = alsoGood
  broken = broken
  Rows <- MCRows
  Malformed <- MCMalformed
  MaxLevels = 3
SPECIFICATION Spec
SYMMETRY Symmetry
INVARIANTS
  TypeOK
  AtMostOneCallback
  CacheBounded
  CacheIsLive
