SPECIFICATION LibrarySpec
CONSTANTS
  Generations = 4
  NoIndex = 99
  NoObject = NoObject
  Object = {o1, o2, o3}
  Capacity = 2
  Thread = {t1, t2, t3, t4}
  Element = {e1, e2}
  NoElement = NoElement
  RingSlots = 4
  MaxPushes = 5
  Frame = {f1, f2}
  Place = {g1, g2, g3, g4}
  NoPlace = NoPlace
  Absent = Absent
  Arrivals <- Payloads
  Align = 2
  InitialCount = 2
  InitialSize = 8
  Sizes = {4, 15}
  MaxBuffers = 3
  MaxAllocations = 7
  Timestamp = {1, 2}
  BasePicture = {b1, b2}
  OutputPicture = {u1, u2}
  loqUnprocessedCap = 2
  resultsQueueCap = 1
  MaxPayloads = 3
  Policy = {"Disable"}
  None = None
  FrameTime = {1, 2, 3}
  Enhancement <- VulkanPayloads
  Client <- VulkanClients
  Base = {b1, b2}
  Output = {u1}
  maxLatency = 3
  m_maxReorder = 3
  numTemporalBuffers = 1
  Nothing = Nothing
  NumThreads = 2
  Request <- ThreadRequests
  MaxRequests = 2
INVARIANTS
  NobodySleepsOn
  ConfigsReferenced
  SlotsFindBlocks
  EnhancedByOwn
  ParsedInOrder
  DecodesDrained
  FramesSettle
  ResidualsInChain
  JobsAccounted
PROPERTIES
  ImplementsTable
  ImplementsQueue
  ImplementsStreamState
  RoomAnnounced
CHECK_DEADLOCK FALSE
