CONSTANTS
  N = 4
  QosLevels = 3
  MaxLen = 2
  QosLowBit = 3
  MaxTime = 10
  FifoLen = 40
  MaxEdge = 30
SPECIFICATION ProgramsSpec
INVARIANTS ReadsPreviousEdge
PROPERTIES QosThenTurn LevelThenTurn EveryPopIsNext
\* the threads wait for ever once their inputs are empty; simulations end
CHECK_DEADLOCK FALSE
