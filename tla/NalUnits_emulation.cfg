\* A unit behind a start code of four bytes in a message: a zero is not counted.
SPECIFICATION MessageSpec
CONSTANTS
  BSTemporalShift = 5
  MaxUnits = 20
INVARIANT EmulationUndone
