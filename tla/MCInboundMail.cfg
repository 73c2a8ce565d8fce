SPECIFICATION FairSpec
CONSTANTS
  MaxSessions = 2
  MaxAttempts = 2
  MaxStalls = 1
  FaultKinds = {"storage", "db", "redis", "reply", "server", "worker", "api"}
  MaxFaults = 1
INVARIANTS
  TypeOK
  CopiesNeedFaults
  LossNeedsFaults
  CompletedIsAnnounced
  ObjectsMatchRows
PROPERTIES
  AcceptedIsSaved
  HalvedRowsGo
