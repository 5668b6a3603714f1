\* Every refresh is answered, and within the limit of the account.
SPECIFICATION FairSpec
CONSTANTS
  Requests = {r1, r2}
  NoRequest = NoRequest
  Devices = {d1}
  NoDevice = NoDevice
  MaxTokens = 4
  MaxVersion = 1
  Limit = 2
  Strict = TRUE
  Patient = FALSE
  Events = {"logout", "everywhere", "minute"}
CHECK_DEADLOCK FALSE
INVARIANT RotationsWithinLimit
PROPERTY Answered
