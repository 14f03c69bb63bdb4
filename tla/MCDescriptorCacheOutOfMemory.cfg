CONSTANTS
  good = good
  alsoGood = alsoGood
  broken = broken
  Rows <- MCRows
  Malformed <- MCMalformed
  MaxLevels = 2
SPECIFICATION Spec
INVARIANTS
  CacheDiesWithTransaction
