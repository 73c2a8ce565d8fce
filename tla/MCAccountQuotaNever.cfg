CONSTANTS
  Sends = {s1, s2}
  s1 = s1
  s2 = s2
  c1 = c1
  Creates = {c1}
  Limit = 2
  MaxInboxes = 1
  MaxBatch = 2
  Ticks = 2
  MaxClock = 2
  Zone = 0
SYMMETRY Interchangeable
SPECIFICATION Spec
CHECK_DEADLOCK FALSE
PROPERTY NewMonthCountsAgain
