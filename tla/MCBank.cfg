SPECIFICATION Spec
CONSTANTS
  w1 = w1
  w2 = w2
  t1 = t1
  None = None
  Workers = {w1, w2}
  Pollers = {w1, w2}
  Transfers = {t1}
  MaxDay = 3
  MaxFailures = 1
INVARIANTS LeaseHolds CursorHolds
PROPERTIES PollersProceed
CHECK_DEADLOCK FALSE
