SPECIFICATION FairSpec
CONSTANTS t1 = t1 t2 = t2 t3 = t3 NULL = NULL
  Thread <- Three
  Prio <- Steps
INVARIANTS OwnersCounted ExclusiveUnlessRaced
PROPERTIES ImplementsLock FreedAgain
