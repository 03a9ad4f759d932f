SPECIFICATION Spec
CONSTANTS
  Threads = {t1, t2}
  Sessions = {s1}
  Names = {n1}
  MaxKernels = 3
  None = None
INVARIANT NoKernelLeaked
