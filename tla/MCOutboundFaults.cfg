SPECIFICATION Spec
CONSTANTS
  N = 2
  Orig = "send"
  Resend = {}
  MaxAttempts = 2
  MaxStalls = 1
  FaultKinds = {"storage", "db", "redis", "crash", "ack"}
  MaxFaults = 1
  Modes = {"production"}
  UserActions = {"suppress", "unsuppress", "domain", "cleanup", "delete"}
INVARIANTS
  CompletedCoversAll
  DeliveredMeansMailed
PROPERTY HeldNeverMailed
