SPECIFICATION Spec
CONSTANTS
  Client = {c1}
  Worker = {w1, w2}
  Task = {t1, t2, t3}
  Group = {g1}
  NoGroup = NoGroup
  MaxDeps = 2
  Reserved = 4
  Shapes <- GroupShapes
SYMMETRY Symmetry
INVARIANTS
  StartedInputsMet
  UnmetUntilProduced
  WaitingIsListed
  CountsAgree
  IterationsAccounted
  LoopsEnd
