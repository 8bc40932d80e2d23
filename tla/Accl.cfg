CONSTANTS
  K = 3
  SgNum = 2
  PoolSize <- SmallPools
  Delays = {0, 1, 3}
SPECIFICATION Spec
INVARIANTS PoolsPartition NoDanglingIds TreeBalanced
PROPERTIES AllReclaimed
