CONSTANTS
  MaxPayloads = 6
  Spread = 3
SPECIFICATION TlmSpec
INVARIANTS InFlightIsHeld PoolBounded
PROPERTIES ImplementsStack
