SPECIFICATION Spec
CONSTANTS
  N = 1
  Orig = "send"
  Resend = {}
  MaxAttempts = 2
  MaxStalls = 1
  FaultKinds = {"redis"}
  MaxFaults = 1
  Modes = {"production"}
  UserActions = {}
INVARIANT NoDoubleMail
