SPECIFICATION PoolSpec
CONSTANTS
  POOL = 12
  H = 1
  Sizes = {1, 2, 3}
  mrt_nullptr = mrt_nullptr
INVARIANTS
  HandsOutFree
  FailsOnlyIfFull
