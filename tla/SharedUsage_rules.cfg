SPECIFICATION USpec
CONSTANTS
  k1 = k1
  k2 = k2
  Proc = {p1, p2}
  Roots = {p1}
  Key = {k1, k2}
  Private = private
  Sizes = {1}
  SHARED_MAX = 2
  MaxSeg = 3
  MaxSem = 2
  MaxMap = 2
  Faulty = {"semget", "shmat"}
  Initializer = p1
  Rules = {"init", "fini", "order", "verbose"}
  SlotOf <- SlotsOfTwo
  Nobody = nobody
INVARIANTS MutualExclusion SemaphoreConserved
PROPERTIES ImplementsMutex
CHECK_DEADLOCK FALSE
