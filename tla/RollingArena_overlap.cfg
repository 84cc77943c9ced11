SPECIFICATION ArenaSpec
CONSTANTS
  Align = 2
  InitialCount = 2
  InitialSize = 8
  Sizes = {2, 5}
  MaxBuffers = 3
  MaxAllocations = 7
INVARIANTS BlocksApart
CHECK_DEADLOCK FALSE
