SPECIFICATION FairSpec
CONSTANTS
  Time <- Frames3
  Pic = {p1, p2}
  NoPic = NoPic
  Kinds = {"temporal", "refresh"}
  TrickPlay = {}
  Passthrough = "Disable"
  InitFails = FALSE
  MaxLatency = 2
  MinLatency = 0
  MaxReorder = 2
  RingCapacity = 3
  Workers = 2
CHECK_DEADLOCK FALSE
INVARIANTS
  BufferHolderTold
