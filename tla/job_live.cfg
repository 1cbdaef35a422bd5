SPECIFICATION LiveSpec
CONSTANTS
  h1 = h1
  h2 = h2
  Host = {h1}
  NoHost = NoHost
  NoTask = NoTask
  MaxRun = 2
  MaxMsg = 1
  MaxFault = 1
  Faults = {"crash", "disconnect"}
  PartialReports = FALSE
  Prompt = TRUE
  ForcedQdel = TRUE
  Refusals = {}
  Resource = {"slots", "mem"}
  QueueSlots = "slots"
  Total <- TotalOf
  Reservation <- Reservations
  RunningJob <- RunningJobs
  PendingJob <- PendingJobs
  Calendar = {}
  Now = 3
  Interval = 2
  QueueEnd = 7
  Infinity = 9
  NoDiagram = NoDiagram
INVARIANTS KnownJobIsSpooled DiagramIsNormal AnswersAreTrue NoTimePassedOver
PROPERTIES KeepsProfile StartIsSettled DeletedEnds HostIsUsableAgain StrayInstanceEnds
CHECK_DEADLOCK FALSE
