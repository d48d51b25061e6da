CONSTANTS
  MaxConns = 2
  Cycle = 10
  MaxFaults = 1
  Settings <- MCSettings
SPECIFICATION Spec
INVARIANTS UniqueKeys  
PROPERTY Terminates
CHECK_DEADLOCK FALSE
