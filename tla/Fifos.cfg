CONSTANTS
  Values = {0, 1}
  Len0 = 3
SPECIFICATION FifosSpec
INVARIANTS NobodyWaitsInVain
PROPERTIES ImplementsFifo ImplementsDelta
