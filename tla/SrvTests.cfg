CONSTANTS
  m_arb_num = 4
  MaxLen = 2
  InputPorts = 3
  OutputPorts = 2
  rate = 2
  capacity = 5
  MaxTime = 5
  NodeCapacity = 5
  Sizes = {1, 2, 3}
  QueueCapacity = 3
  Priorities = {high, low}
  high = high
  low = low
SPECIFICATION TestsSpec
INVARIANTS Matching RateExact UsageIsExact
PROPERTIES Maximal EveryRequestServed BoundedBypass PausedBeforeDropped
