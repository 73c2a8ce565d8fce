SPECIFICATION AccSpec
CHECK_DEADLOCK FALSE
CONSTANTS
  Requests = {x1, x2}
  Seeds = {adam}
  Mails = {}
  Passwords = {new}
  Old = old
  Production = TRUE
  TrustUnclaimed = FALSE
  LastSecond = 1
  None = none
INVARIANT RotatedSecretStops
