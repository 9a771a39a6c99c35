SPECIFICATION FairSpec
CONSTANTS
  Numbers = {1, 2}
  INT_MIN = int_min
  None = none
  Faulty = {"fork", "attach"}
  Killable = {"student", "teacher"}
INVARIANTS TypeOK StudentSeesTask RemovedAtTheEnd
PROPERTIES ImplementsAssignment WaitsEnd
CHECK_DEADLOCK FALSE
