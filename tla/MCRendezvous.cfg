SPECIFICATION FairSpec
CONSTANTS
  Keys = {k1}
  Producers = {p1, p2}
  Consumers = {c1, c2}
  Blocking = {c2}
  Timed = {c2}
  Aborters = {a1, a2}
  Owner = owner
  MaxCalls = 2
  OK = OK
  None = None
INVARIANT TypeOK
INVARIANT QueueHomogeneous
INVARIANT CalledOnce
INVARIANT ContextsHeld
INVARIANT InOrder
PROPERTY ChannelSpec
PROPERTY RequestsComplete
