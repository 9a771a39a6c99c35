SPECIFICATION PFairSpec
CONSTANTS
  Server = server
  Client = client
  Proc = {server, client}
  Roots = {server, client}
  Key = {key2}
  Private = private
  Sizes = {6}
  SHARED_MAX = 1
  MaxSeg = 2
  MaxSem = 1
  MaxMap = 1
  Faulty = {"semget", "shmat"}
  Letters = 5
  Size = 6
  ServerFirst = TRUE
  Killable = {server, client}
INVARIANTS PTypeOK WholeMessage DestroyedUnused
PROPERTIES BothFinish
CHECK_DEADLOCK FALSE
