SPECIFICATION Spec
CONSTANTS
  Thread = {a, b, c}
  STDIO = 1
  NARR = 4
  NEXP = 2
  MAXOPEN = 2
  NULL = NULL
SYMMETRY Symmetry
INVARIANTS
  SlotsMatch
  RefCounted
