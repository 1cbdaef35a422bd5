SPECIFICATION ServicesSpec
CONSTANTS
  Client = {c1}
  Scheduler = sched
  DynamicId = {11}
  SchedId = 1
  NoClient = NoClient
  Nothing = Nothing
  Broken = Broken
  Early = Early
  MaxVersion = 2
  MaxRequest = 2
  MaxAck = 1
  Host = {h1, h2, h3}
  First = h1
  CheckEvery = 2
  MaxMishap = 1
INVARIANTS
  MirrorIsConsistent
  OneQmaster
PROPERTIES
  CopiesMoveOn
  SchedulerCatchesUp
  AnotherTakesOver
CHECK_DEADLOCK FALSE
