CONSTANTS
  Sends = {s1, s2}
  s1 = s1
  s2 = s2
  c1 = c1
  c2 = c2
  Creates = {c1, c2}
  Limit = 2
  MaxInboxes = 1
  MaxBatch = 2
  Ticks = 2
  MaxClock = 4
  Zone = 0
SYMMETRY Interchangeable
SPECIFICATION Spec
CHECK_DEADLOCK FALSE
INVARIANTS
  TypeOK
  LimitsHold
PROPERTY RefusalIsDue
