SPECIFICATION FairSpec
CONSTANTS
  Time <- Frames2
  Pic = {p1, p2}
  NoPic = NoPic
  Kinds = {"bad", "plain"}
  TrickPlay = {"flush", "synchronize"}
  Passthrough = "Scale"
  InitFails = FALSE
  MaxLatency = 1
  MinLatency = 0
  MaxReorder = 2
  RingCapacity = 1
  Workers = 1
CHECK_DEADLOCK FALSE
PROPERTIES
  FrameFinishes
  ReceiveReturns
  SynchronizeReturns
