SPECIFICATION Spec
CONSTANTS
  c1 = c1
  c2 = c2
  i1 = i1
  i2 = i2
  u1 = u1
  u2 = u2
  a1 = a1
  a2 = a2
  r1 = r1
  r2 = r2
  None = None
  Clients = {c1, c2}
  SessIds = {i1, i2}
  ChallengeIds = {i1, i2}
  TokIds = {i1, i2}
  Items = {i1, i2}
  Users = {u1, u2}
  Addresses = {a1, a2}
  RecoveryCodes = {r1, r2}
  Threshold = 2
  Durations <- MCDurations
  Bounds <- MCBounds
  MaxPeriod = 0
  MaxSecret = 2
  MaxAttempts = 2
  MaxSteps = 3
SYMMETRY Symmetry
INVARIANTS  SecondFactorHolds  
CHECK_DEADLOCK FALSE
