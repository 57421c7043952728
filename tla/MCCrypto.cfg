SPECIFICATION Spec
CONSTANTS
  i1 = i1
  i2 = i2
  w1 = w1
  r1 = r1
  r2 = r2
  None = None
  Invoices = {i1, i2}
  Wallets = {w1}
  System = {w1}
  Requests = {r1, r2}
  Amount = 3
  DustUnit = 2
  Dusts = {1}
  Slots = 2
  Life = 0
  Forms <- MCForms
  Payments <- MCPayments
  HasKeys = FALSE
  Confs = {0, 1}
  Batch = 2
  MaxTime = 1
  MaxBlocks = 3
  MaxEdits = 1
  MaxSessions = 4
SYMMETRY Symmetry
INVARIANTS TypeOK CreditsHold SlotsAreOpenInvoices ChainIsFollowed
CHECK_DEADLOCK FALSE
