SPECIFICATION Spec
CONSTANTS
  Threads = {t1, t2, t3}
  Pointers = {p1, p2}
  Sizes = {1, 2}
  MaxAllocs = 4
INVARIANT RefCounted
INVARIANT DeletedOnce
INVARIANT SizesExact
