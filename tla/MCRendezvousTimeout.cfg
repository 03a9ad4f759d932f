SPECIFICATION FairSpec
CONSTANTS
  Keys = {k1}
  Producers = {p1}
  Consumers = {c1}
  Blocking = {c1}
  Timed = {c1}
  Aborters = {a1}
  Owner = owner
  MaxCalls = 2
  OK = OK
  None = None
PROPERTY ReachesConsumer
