SPECIFICATION EnhancementSpec
CONSTANTS
  BSTemporalShift = 2
  Tile <- DecodeTiles
  Job <- SerialJobs
  JumpSignals = 4
  LayerSize = 2
  InitialCapacity = 10
  NumEntryPoints = 2
  BlockTus = 4
  JumpTaken = {1, 3, 300}
  Residual = {7, 9}
  MaxCommands = 3
INVARIANTS
  DecodesEachUnit
  LayoutSound
  PathsAgree
  WritesApart
CHECK_DEADLOCK FALSE
