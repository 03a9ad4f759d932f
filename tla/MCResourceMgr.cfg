SPECIFICATION FairSpec
CONSTANTS
  Threads = {t1, k1, k2}
  Kernels = {k1, k2}
  Containers = {c1}
  Container = c1
  Names = {n1, 0, 1}
  Types = {A, B}
  Type = A
  HashCode <- Distinct
  MaxObjects = 2
  None = None
INVARIANT RefExact
INVARIANT NoUseAfterFree
INVARIANT LookupCorrect
INVARIANT PrivateIsPrivate
INVARIANT PrivateDeleted
PROPERTY OthersKeepResource
PROPERTY DeletedInTheEnd
