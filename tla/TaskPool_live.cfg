SPECIFICATION FairSpec
CONSTANTS
  Client = {c1}
  Worker = {w1, w2}
  Task = {t1, t2}
  Group = {g1}
  NoGroup = NoGroup
  MaxDeps = 2
  Reserved = 4
  Shapes <- CallShapes
INVARIANTS
  NoLostWakeup
PROPERTIES
  ImplementsTaskGraph
  WaitsReturn
  RunnableFinishes
