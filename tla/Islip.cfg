CONSTANTS
  N = 3
  Demand <- AllPairs
SPECIFICATION Spec
INVARIANTS Matching
PROPERTIES BoundedWait FullThroughput
