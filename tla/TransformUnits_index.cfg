SPECIFICATION TileSpec
CONSTANTS
  BSTemporalShift = 5
  MaxUnits = 20
INVARIANTS IndexesAgree
CHECK_DEADLOCK FALSE
