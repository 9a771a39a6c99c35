SPECIFICATION MCSpec
CONSTANTS
  Letters = 2
  PairLetters = 3
  MayFail = {"fork", "exec"}
  PairFaults = {"shmget", "shmat", "semget"}
  Iter = 3
  CreateMayFail = TRUE
INVARIANTS Types OneAtATime PrintedWhole CounterBounds
PROPERTIES ProgramsEnd
CHECK_DEADLOCK FALSE
