\* Two buyers, one cart each; Razorpay drops responses and nothing worse.
SPECIFICATION FairSpec
CONSTANTS
  k1 = k1  k2 = k2  s1 = s1  s2 = s2  a1 = a1  a2 = a2
  Keys = {k1, k2}
  Sessions = {s1, s2}
  SessionOf <- TwoSessions
  TotalOf <- TwoTotals
  Amounts = {a1, a2}
  Requests = {r1, r2}
  OrderIds = {o1, o2, o3}
  PaymentIds = {p1}
  None = None
  MaxPolls = 1
  LateCreate = FALSE
  StaleLookup = FALSE
INVARIANTS OrderIsOwn OneOrderPerKey
PROPERTY Answered
