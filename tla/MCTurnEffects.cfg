SPECIFICATION Spec
SYMMETRY Symmetry
CONSTRAINT Apart
CHECK_DEADLOCK FALSE
CONSTANTS
  Procs = {p1, p2}
  Nobody = nobody
  MaxAttempts = 2
  MaxCalls = 2
  MaxEffects = 2
  KeyedOps = {r1, r2}
  CardOps = {c1, c2}
  TextCards = {c1}
  NoOp = noop
  Costs = {FALSE}
  Faults = {}
  Events = {"crash", "stop", "drain"}
  SecondCard = c2
INVARIANTS
  TypeOK
  JournalHolds
  DoneHasItsAnswer
PROPERTIES
  FencedWrites
  ClosedIsFinal
