SPECIFICATION Spec
CONSTANTS
  r1 = r1
  r2 = r2
  k1 = k1
  k2 = k2
  b1 = b1
  b2 = b2
  o1 = o1
  o2 = o2
  o3 = o3
  Field1 = Field1
  Field2 = Field2
  Range = Range
  Api = Api
  Worker = Worker
  None = None
  Requests = {r1, r2}
  Keys = {k1, k2}
  Bodies = {b1, b2}
  Orders = {o1, o2, o3}
  Servers = {Api}
  Procs = {Api, Worker}
  Listeners = {Worker}
  Readers = {Api}
  Fields = {Field1, Field2}
  Edits = {1, 2}
  ConfigTTL = 2
  Ranges = {Range}
  Loads = {r1, r2}
  ListTTL = 2
  MaxLoad = 1
  Length <- MCLength
  Limit <- MCLimit
  Extra <- MCExtra
  MaxTime = 1
  MaxHits = 3
SYMMETRY Symmetry
INVARIANTS IdempotencyHolds ConfigHolds BlockListHolds LimitsHold
CHECK_DEADLOCK FALSE
