SPECIFICATION Spec
CONSTANTS
  Time <- Frames0
  Pic = {p1, p2}
  NoPic = NoPic
  Kinds <- TemporalKinds
  TrickPlay = {"skip"}
  Passthrough = "Disable"
  InitFails = TRUE
  MaxLatency = 2
  MinLatency = 0
  MaxReorder = 2
  RingCapacity = 3
  Workers = 2
SYMMETRY Symmetry
INVARIANTS
  IndexesAgree
  PicturesAccounted
  BaseHeldWhileRead
  BufferHasOneHolder
  ResidualsFromPredecessor
  HandOverTargetLives
