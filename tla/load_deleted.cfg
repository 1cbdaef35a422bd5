SPECIFICATION LoadSpec
CONSTANTS
  Name = {"load"}
  Static = {}
  Value = {"low", "high"}
  Absent = Absent
  Null = Null
  NoList = NoList
  Wrap = 10000
  OldRange = 9000
  High = 9990
  Low = 10
  MayVanish = TRUE
  MaxReport = 2
  MaxChange = 2
  LoadFaults = {"disconnect", "crash", "restart", "unheard"}
  MaxLoadFault = 0
PROPERTY GoneIsDeleted
CHECK_DEADLOCK FALSE
