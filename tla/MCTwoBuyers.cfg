\* Two buyers, one purchase each; Razorpay delivers every event.
SPECIFICATION FairSpec
CONSTANTS
  k1 = k1  k2 = k2  s1 = s1  s2 = s2  a1 = a1  a2 = a2
  Keys = {k1, k2}
  Sessions = {s1, s2}
  SessionOf <- TwoSessions
  TotalOf <- TwoTotals
  Amounts = {a1, a2}
  Calls = {c1}
  OrderIds = {o1, o2}
  PaymentIds = {p1, p2}
  None = None
  TTL = 1
  MaxTime = 0
  LostResponses = FALSE
  Restarts = FALSE
INVARIANTS HistoryIsPaid ConsumedIsOwn DeliveryActedOn
PROPERTY PaidIsRecorded
