CONSTANTS
  InitCredit = 3
  Delay = 6
  SchCycle = 2
  ValMod = 5
  MaxLatency = 9
  PairMod = 4
  FifoSize = 16
SPECIFICATION MainSpec
INVARIANTS
  TypeOK CreditConservation StatMatchesDebt PathsInStep ReceiveBacklog PairsKeepUp
PROPERTIES ImplementsChannel ChannelLive RoundTrip
