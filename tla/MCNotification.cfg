SPECIFICATION NotificationFairSpec
CONSTANTS
  Notifier = n
  Waiters = {w1, w2, w3}
  Timed = {w3}
  Deleter = deleter
  NoOne = NoOne
INVARIANT TypeOK
INVARIANT SafeToDestroy
INVARIANT NoEarlyReturn
PROPERTY WaitersReturn
