SPECIFICATION FairSpec
CONSTANTS
  KeyReader = {k1}
  TouchReader = {t1}
  SAMPLES = 3
INVARIANTS
  NoDanglingEntry
  EdgePending
  RawOnlyWhileRunning
PROPERTIES
  EdgeSeen
