SPECIFICATION Spec
CONSTANTS
  h1 = h1
  h2 = h2
  Host = {h1}
  NoHost = NoHost
  NoTask = NoTask
  MaxRun = 2
  MaxMsg = 2
  MaxFault = 0
  Faults = {}
  PartialReports = FALSE
  Prompt = TRUE
  ForcedQdel = FALSE
  Refusals = {"reported"}
PROPERTY ExitAckMeansExited
CHECK_DEADLOCK FALSE
