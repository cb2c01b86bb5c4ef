SPECIFICATION FairSpec
CONSTANTS
  Client = {c1, c2}
  Lens = {0, 1, 2, 4}
  NULL = NULL
INVARIANTS
  LeftClean
  ReadAnswered
PROPERTIES
  TransferEnds
