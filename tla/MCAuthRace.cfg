\* Two devices with overlapping requests, logouts and the end of the grace period.
SPECIFICATION Spec
CONSTANTS
  Requests = {r1, r2}
  NoRequest = NoRequest
  Devices = {d1, d2}
  NoDevice = NoDevice
  MaxTokens = 5
  MaxVersion = 1
  Limit = 9
  Strict = TRUE
  Patient = FALSE
  Events = {"logout", "everywhere", "grace"}
SYMMETRY Symmetry
CHECK_DEADLOCK FALSE
INVARIANTS TypeOK ChainIntact RetiredIsDead
PROPERTY RetirementIsFinal
