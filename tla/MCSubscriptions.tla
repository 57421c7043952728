-------------------------- MODULE MCSubscriptions --------------------------
(***************************************************************************)
(* Instance of Subscriptions for TLC.                                      *)
(***************************************************************************)
EXTENDS Subscriptions, TLC

CONSTANTS u1, u2, p1, p2, c1, c2

MCPlanForms == {[price |-> 0, days |-> 2, active |-> TRUE]}
MCCoupon(percent, off, cap, max) ==
    [percent |-> percent, off |-> off, cap |-> cap, min |-> 1, max |-> max, perUser |-> 1,
     from |-> 0, until |-> 1, plans |-> {}, active |-> TRUE, count |-> 0]
MCCouponForms == {MCCoupon(TRUE, 50, 2, 2), [MCCoupon(FALSE, 7, None, None) EXCEPT !.plans = {p1}]}
MCFirstPlan == [p \in Plans |-> IF p = p1 THEN [price |-> 2, days |-> 1, active |-> TRUE] ELSE None]
MCFirstCoupon == [c \in Coupons |-> IF c = c1 THEN MCCoupon(TRUE, 50, None, 1) ELSE None]

Symmetry == Permutations(Users) \cup Permutations(Requests) \cup Permutations(Subs)
=============================================================================
