SPECIFICATION QmasterSpec
CONSTANTS
  t1 = t1
  t2 = t2
  t3 = t3
  t4 = t4
  c1 = c1
  c2 = c2
  c3 = c3
  c4 = c4
  Thread = {t1, t2, t3, t4}
  Call = {c1, c2, c3, c4}
  Owner <- OneCallEach
  QueueLength = 2
  Worker = {w1, w2}
  Listener = {l1}
  Schedd = s1
  Message = {m1, m2}
  Order = {o1}
  NoPacket = NoPacket
  e1 = e1
  e2 = e2
  r1 = r1
  k1 = k1
  Event = {e1, e2, r1}
  OneTime = {e1, e2}
  EventKey = {k1}
  KeyOf <- OneKey
  Delay = {1, 2}
  Interval = 2
  NoEvent = NoEvent
  MaxClock = 3
  MaxSetback = 1
  Signal = {"STOP"}
  NoSignal = "0"
  MaxSignal = 1
  Name = {"arch", "load"}
  Static = {"arch"}
  Value = {"low", "high"}
  Absent = Absent
  Null = Null
  NoList = NoList
  Wrap = 4
  OldRange = 2
  High = 2
  Low = 1
  MayVanish = FALSE
  MaxReport = 2
  MaxChange = 2
  LoadFaults = {"disconnect", "crash", "restart", "unheard"}
  MaxLoadFault = 1
INVARIANTS
  MutualExclusion
  NoLostWakeup
  NoTaskUnnoticed
  HandledByOne
  AwaitedIsListed
  NoOversleep
  OneTimerEach
PROPERTIES
  FirstComeFirstServed
  WaitersAreServed
  MessagesStopFirst
  TaskIsHandled
  ShutdownEnds
  DueIsDelivered
  PendingStaysArmed
  AckDisarms
  LoadIsLearned
CHECK_DEADLOCK FALSE
