CONSTANTS
  N = 4
  MaxLen = 2
  Stop = 30
SPECIFICATION SpinSpec
PROPERTIES SimulationEnds
\* sc_start returns at Stop
CHECK_DEADLOCK FALSE
