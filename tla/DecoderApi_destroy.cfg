SPECIFICATION Spec
CONSTANTS
  NoObject = NoObject
  NoOne = NoOne
  NoIndex = 99
  Generations = 32
  Client = {c1, c2}
  Context = {d1, d2}
  Picture = {p1, p2}
  DecoderCapacity = 1
  PictureCapacity = 2
  LockCapacity = 2
  MaxCalls = 7
INVARIANTS DestroyedAlone
CHECK_DEADLOCK FALSE
