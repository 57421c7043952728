SPECIFICATION Spec
CONSTANTS
  o1 = o1
  o2 = o2
  t1 = t1
  t2 = t2
  n1 = n1
  r1 = r1
  r2 = r2
  None = None
  Orders = {o1, o2}
  Topups = {o1, o2}
  Txs = {t1, t2}
  Names = {n1}
  Requests = {r1, r2}
  Ops = {"create", "cancel", "apicancel", "confirm", "force", "match", "rematch", "reject", "refund"}
  TxAmounts = {1}
  Contents = {{n1}, {o1}, {o2}}
  Reliable = {TRUE}
  TTL = 1
  Cooldown = 2
  MaxTime = 3
  MaxAborts = 0
  MaxFailures = 1
  MaxManual = 1
  Price <- MCPrice
SYMMETRY Symmetry
INVARIANTS TypeOK WindowsDisjoint PaymentReachesItsOrder 
CHECK_DEADLOCK FALSE
