SPECIFICATION Spec
SYMMETRY Symmetry
CONSTRAINT EarlyDeadline
CHECK_DEADLOCK FALSE
CONSTANTS
  Procs = {p1, p2}
  Nobody = nobody
  MaxAttempts = 2
  MaxCalls = 2
  MaxEffects = 0
  KeyedOps = {}
  CardOps = {}
  TextCards = {}
  NoOp = noop
  Costs = {TRUE, FALSE}
  Faults = {"rejected", "unacknowledged"}
  Events = {"deadline"}
  SecondCard = noop
PROPERTIES
  KeepsContract
INVARIANTS
  QuotaMatchesRefund
  NoPaidCallVanishes
