SPECIFICATION PrSpec
CONSTANTS
  SignalFaults = {"fork", "exec"}
  MaxOutside = 2
  Directories = {"r", "a", "b", "c"}
  Given = "r"
  Subdirectory <- Tree
  DirFaults = {"fork", "mkfifo", "opendir", "kill"}
  MaxRounds = 2
  CallFaults = {"fork", "exec"}
  Cap = 2
  MaxLines = 3
INVARIANTS Types OneTurn SubdirFirst Delivered
PROPERTIES KilledUnprepared AllEnd
CHECK_DEADLOCK FALSE
