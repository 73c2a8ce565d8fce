SPECIFICATION Spec
CONSTANTS
  N = 2
  Orig = send
  Resend = {r1, r2}
  MaxAttempts = 2
  MaxStalls = 0
  FaultKinds = {}
  MaxFaults = 0
  Modes = {"production"}
  UserActions = {"cancel", "delete"}
SYMMETRY ResendSymmetry
INVARIANTS
  TypeOK
  MailedAtMostOnce
  UndeliveredMeansUnmailed
  OneDelivery
PROPERTY KeepsLifecycle
