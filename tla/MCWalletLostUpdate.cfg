SPECIFICATION Spec
CONSTANTS
  Users = {u1, u2}
  Keys = {k1, k2}
  Sessions = {s1, s2}
  Amounts <- MCAmounts
  Preloaded = {s1, s2}
  Postgres = TRUE
  None = None
SYMMETRY Symmetry
INVARIANTS BalanceIsLedgerSum
CHECK_DEADLOCK FALSE
