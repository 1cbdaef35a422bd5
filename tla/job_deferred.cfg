SPECIFICATION Spec
CONSTANTS
  h1 = h1
  h2 = h2
  Host = {h1, h2}
  NoHost = NoHost
  NoTask = NoTask
  MaxRun = 2
  MaxMsg = 1
  MaxFault = 0
  Faults = {}
  PartialReports = FALSE
  Prompt = TRUE
  ForcedQdel = FALSE
  Refusals = {}
PROPERTIES DeferredUntilExit
CHECK_DEADLOCK FALSE
