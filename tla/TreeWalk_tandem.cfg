SPECIFICATION Spec
CONSTANTS
  root = root
  sub = sub
  file_a = file_a
  file_b = file_b
  file_c = file_c
  file_d = file_d
  Dir = {root, sub}
  Root = root
  Trees <- NestedTrees
  MayFail = {}
INVARIANTS InTandem
CHECK_DEADLOCK FALSE
