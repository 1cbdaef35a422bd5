SPECIFICATION Spec
CONSTANTS
  h1 = h1
  h2 = h2
  Host = {h1}
  NoHost = NoHost
  NoTask = NoTask
  MaxRun = 1
  MaxMsg = 1
  MaxFault = 1
  Faults = {"crash"}
  PartialReports = FALSE
  Prompt = TRUE
  ForcedQdel = FALSE
  Refusals = {}
PROPERTY FailedJobIsNotStarted
CHECK_DEADLOCK FALSE
