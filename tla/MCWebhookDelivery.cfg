SPECIFICATION FairSpec
CONSTANTS
  Events = {"received"}
  Pods = {"p1"}
  Hooks = {"h1"}
  MaxTries = 2
  MaxAttempts = 2
  MaxStalls = 1
  MaxRetries = 1
  MaxJobs = 8
  FaultKinds = {"db", "redis", "worker", "api"}
  MaxFaults = 1
INVARIANTS
  TypeOK
  EndpointSpared
  LogIsTrue
  OpenHasJob
PROPERTIES
  DeliveryEnds
  EventIsLogged
