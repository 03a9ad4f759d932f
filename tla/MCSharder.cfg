SPECIFICATION FairSpec
CONSTANTS
  Callers = {p1, p2}
  Pool = {p1, p2, p3}
  Arguments <- MCArguments
  kMinCostPerShard = 2
  LongRange = 32
  IntRange = 8
  MaxUnit = 6
  None = None
INVARIANT TypeOK
INVARIANT ReturnsWhenDone
PROPERTY ShardReturns
