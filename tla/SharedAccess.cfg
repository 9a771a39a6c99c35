SPECIFICATION FairSpec
CONSTANTS
  Proc = {p1, p2}
  Cell = {c1, c2}
  Val = {0, 1}
  Content <- Uniform
  Initial <- Zeros
  Broken = broken
INVARIANTS ReadsAreWhole
PROPERTIES ImplementsObject WaitEnds
