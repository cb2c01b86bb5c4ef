SPECIFICATION SemaSpec
CONSTANTS t1 = t1 t2 = t2 t3 = t3 t4 = t4
  Caller <- Four
  Val = 2
  W = 8
INVARIANTS PermitsBounded ZeroIsOwned
