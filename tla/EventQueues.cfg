CONSTANTS
  Payloads = {a, b, c}
  MaxDelay = 3
  a = a
  b = b
  c = c
  Periods = {1, 3}
  Period0 = 1
  MaxCycles = 2
  MaxCalls = 3
  MaxNow = 4
  Callbacks <- Careful
SPECIFICATION QueuesSpec
INVARIANTS Announced NoLostWakeup
PROPERTIES EveryPayloadLeaves EveryEntryLeaves ImplementsBag RelativeViewExact
