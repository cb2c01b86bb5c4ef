SPECIFICATION Spec
CONSTANTS
  t1 = t1
  t2 = t2
  t3 = t3
  Thread <- Threads
  ISR = ISR
  IsrLocks = FALSE
  NULL = NULL
INVARIANTS
  MutualExclusion
  NeverSpins
  FlagIsOwn
PROPERTIES
  ImplementsLock
