SPECIFICATION Spec
CONSTANTS
  Proc = {p1, p2}
  Roots = {p1}
  Key = {k1}
  Private = private
  Sizes = {1}
  SHARED_MAX = 2
  MaxSeg = 2
  MaxSem = 1
  MaxMap = 1
  Faulty = {"shmat"}
INVARIANTS TypeOK CountMatches OneSlotPerKey PointerValid
CHECK_DEADLOCK FALSE
