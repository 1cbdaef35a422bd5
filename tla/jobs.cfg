SPECIFICATION JobsSpec
CONSTANTS
  h1 = h1
  h2 = h2
  Host = {h1, h2}
  NoHost = NoHost
  NoTask = NoTask
  MaxRun = 3
  MaxMsg = 3
  MaxFault = 0
  Faults = {}
  PartialReports = FALSE
  Prompt = TRUE
  ForcedQdel = TRUE
  Refusals = {}
INVARIANTS TypeOK NoDoubleStart AtMostOneReport ResendIsArmed
PROPERTIES ExitMeansEnded DeletedNeverRunsAgain RescheduledIsKeptAway
CHECK_DEADLOCK FALSE
SYMMETRY HostSymmetry
CONSTRAINT SmallEnough
