SPECIFICATION FairSpec
CONSTANTS
  N = 1
  Orig = "send"
  Resend = {"r1"}
  MaxAttempts = 2
  MaxStalls = 1
  FaultKinds = {"redis", "crash", "db"}
  MaxFaults = 1
  Modes = {"testing", "production"}
  UserActions = {"cancel"}
INVARIANTS
  DuplicatesNeedFaults
  DeliveredMeansLogged
PROPERTIES
  JobEnds
  ClaimedIsServed
