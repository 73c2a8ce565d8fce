SPECIFICATION Spec
CONSTANTS
  N = 1
  Orig = "send"
  Resend = {}
  MaxAttempts = 2
  MaxStalls = 1
  FaultKinds = {}
  MaxFaults = 0
  Modes = {"production"}
  UserActions = {}
INVARIANT FailedIsReported
