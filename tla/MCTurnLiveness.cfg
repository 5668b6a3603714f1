SPECIFICATION MCFairSpec
CHECK_DEADLOCK FALSE
CONSTANTS
  Procs = {p1, p2}
  Nobody = nobody
  MaxAttempts = 2
  MaxCalls = 1
  MaxEffects = 0
  KeyedOps = {}
  CardOps = {}
  TextCards = {}
  NoOp = noop
  Costs = {FALSE}
  Faults = {}
  Events = {"crash", "deadline", "stop"}
  Ways = {"deadline", "stop"}
PROPERTIES
  OverdueIsClosed
  StopEndsTurn
