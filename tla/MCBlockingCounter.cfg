SPECIFICATION FairSpec
CONSTANTS
  Workers = {k1, k2, k3}
  Waiters = {w1, w2}
  Timed = {w2}
  NoOne = NoOne
INVARIANT TypeOK
INVARIANT WaitReturnsAtZero
INVARIANT NoLostWakeup
INVARIANT SafeToDestroy
PROPERTY WaitersReturn
