\* Sign-in beside logout everywhere.
SPECIFICATION Spec
CONSTANTS
  Requests = {r1, r2}
  NoRequest = NoRequest
  Devices = {d1, d2}
  NoDevice = NoDevice
  MaxTokens = 4
  MaxVersion = 1
  Limit = 9
  Strict = TRUE
  Patient = FALSE
  Events = {"everywhere"}
CHECK_DEADLOCK FALSE
INVARIANT ClosedSessionHasNoAccess
