\* Patient devices, lenient reuse: lost answers, retries, crashes, time passing.
SPECIFICATION Spec
CONSTANTS
  Requests = {r1, r2}
  NoRequest = NoRequest
  Devices = {d1, d2}
  NoDevice = NoDevice
  MaxTokens = 4
  MaxVersion = 1
  Limit = 9
  Strict = FALSE
  Patient = TRUE
  Events = {"logout", "grace", "expiry", "failure"}
SYMMETRY Symmetry
CHECK_DEADLOCK FALSE
INVARIANT StoredTokenWorks
