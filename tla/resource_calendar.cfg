SPECIFICATION CalendarSpec
CONSTANTS
  Resource = {"slots", "mem"}
  QueueSlots = "slots"
  Total <- TotalOf
  Reservation <- Reservations
  RunningJob <- RunningJobs
  PendingJob <- PendingJobs
  Calendar <- Calendars
  Now = 3
  Interval = 2
  QueueEnd = 7
  Infinity = 9
  NoDiagram = NoDiagram
PROPERTY CalendarReplaces
CHECK_DEADLOCK FALSE
