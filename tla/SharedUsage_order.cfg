SPECIFICATION USpec
CONSTANTS
  k1 = k1
  k2 = k2
  Proc = {p1, p2}
  Roots = {p1, p2}
  Key = {k1, k2}
  Private = private
  Sizes = {1}
  SHARED_MAX = 2
  MaxSeg = 2
  MaxSem = 1
  MaxMap = 1
  Faulty = {}
  Initializer = p1
  Rules = {"init", "fini", "verbose"}
  SlotOf <- SlotsOfTwo
  Nobody = nobody
INVARIANTS MutualExclusion
CHECK_DEADLOCK FALSE
