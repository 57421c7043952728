SPECIFICATION FairSpec
CONSTANTS
  o1 = o1
  o2 = o2
  t1 = t1
  n1 = n1
  n2 = n2
  r1 = r1
  r2 = r2
  None = None
  Orders = {o1, o2}
  Topups = {o1}
  Txs = {t1}
  Names = {n1, n2}
  Requests = {r1, r2}
  Ops = {"create"}
  TxAmounts = {0, 1}
  Contents = {{n1}, {n1, n2}}
  Reliable = {TRUE, FALSE}
  TTL = 1
  Cooldown = 2
  MaxTime = 2
  MaxAborts = 1
  MaxFailures = 0
  MaxManual = 0
  Price <- MCPrice
 
PROPERTIES PendingEnds
CHECK_DEADLOCK FALSE
