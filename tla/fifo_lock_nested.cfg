SPECIFICATION FairSpec
CONSTANTS
  t1 = t1
  t2 = t2
  c1 = c1
  c2 = c2
  c3 = c3
  Thread = {t1, t2}
  Call = {c1, c2, c3}
  Owner <- TwoCallsOfOne
  QueueLength = 3
PROPERTY NestedReadsAreServed
CHECK_DEADLOCK FALSE
