SPECIFICATION Spec
CONSTANTS
  Attempts = {a1, a2}
  Dispatchers = {d1, d2}
  MaxAttempts = 2
  BatchSize = 2
  MaxCrashes = 1
  MaxOverruns = 0
  MaxManual = 1
  ManualKinds = {"replay", "redeliver"}
  None = None
SYMMETRY Symmetry
INVARIANTS DeliveredWasAcked ClaimsDisjoint StuckIsFindable
PROPERTIES DeliveredIsFinalUnderClaim
CHECK_DEADLOCK FALSE
