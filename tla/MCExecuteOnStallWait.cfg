SPECIFICATION Spec
CONSTANTS
  Deadline = 2
  MaxTime = 4
INVARIANT SafeToDestroy
