\* Two handlers, two changes at Apple and what the operator may do once.
SPECIFICATION SubFairSpec
CONSTANTS
  Errands = {h1, h2}
  MaxChange = 2
  MaxReturns = 1
  MaxFailures = 1
  Attempts = 1
  MaxOperator = 1
CHECK_DEADLOCK FALSE
INVARIANT SubTypeOK
PROPERTIES LatestNoteWins AccessSettles
