SPECIFICATION FairSpec
CONSTANTS
  base = base idle = idle
  Thread <- Two
  BASE = base IDLE = idle
  MAX = 7 INITVAL = 2
  PERIOD = 2 GUARD = 2 SLICE = 2
  Delays <- MCDelays
INVARIANTS NoEarlyWake PreemptDue SliceCheck
PROPERTY SleeperWakes
