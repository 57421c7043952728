SPECIFICATION Spec
CONSTANTS
  Users = {u1, u2}
  Keys = {k1, k2, k3}
  Sessions = {s1, s2}
  Amounts <- MCAmounts
  Preloaded = {}
  Postgres = TRUE
  None = None
SYMMETRY Symmetry
INVARIANTS LedgerChain KeysUsedOnce AnswerOnRecord
PROPERTIES PostsSerially
CHECK_DEADLOCK FALSE
