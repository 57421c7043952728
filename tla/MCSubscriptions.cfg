SPECIFICATION Spec
CONSTANTS
  u1 = u1
  u2 = u2
  p1 = p1
  p2 = p2
  c1 = c1
  c2 = c2
  s1 = s1
  s2 = s2
  r1 = r1
  r2 = r2
  None = None
  Users = {u1, u2}
  Plans = {p1, p2}
  Coupons = {c1, c2}
  Subs = {s1, s2}
  Requests = {r1, r2}
  PlanForms <- MCPlanForms
  CouponForms <- MCCouponForms
  FirstPlan <- MCFirstPlan
  FirstCoupon <- MCFirstCoupon
  Funds = 3
  MaxTime = 2
  MaxInvoices = 3
  MaxEdits = 1
SYMMETRY Symmetry
INVARIANTS TypeOK CouponsHold NoDayPaidTwice
CHECK_DEADLOCK FALSE
