\* Another offer is selected before the payment is verified.
SPECIFICATION Spec
CONSTANTS
  k1 = k1  k2 = k2  s1 = s1  s2 = s2  a1 = a1  a2 = a2
  Keys = {k1, k2}
  Sessions = {s1}
  SessionOf <- TwoCartsOneSession
  TotalOf <- TwoTotals
  Amounts = {a1, a2}
  Calls = {c1}
  OrderIds = {o1}
  PaymentIds = {p1}
  None = None
  TTL = 1
  MaxTime = 0
  LostResponses = FALSE
  Restarts = FALSE
SYMMETRY Symmetry
INVARIANTS HistoryIsPaid
