SPECIFICATION FairSpec
CONSTANTS
  Attempts = {a1, a2}
  Dispatchers = {d1, d2}
  MaxAttempts = 2
  BatchSize = 1
  MaxCrashes = 1
  MaxOverruns = 1
  MaxManual = 0
  ManualKinds = {}
  None = None
INVARIANTS TriesWithinBudget
PROPERTIES EveryAttemptEnds
CHECK_DEADLOCK FALSE
