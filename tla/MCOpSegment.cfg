SPECIFICATION Spec
CONSTANTS
  Threads = {t1, t2, t3}
  Sessions = {s1}
  Names = {n1}
  MaxKernels = 3
  None = None
INVARIANT KernelsAlive
INVARIANT SameKernel
INVARIANT OwnedOnce
