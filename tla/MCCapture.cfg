\* One purchase, two payments of its order, two verify calls, restarts.
SPECIFICATION Spec
CONSTANTS
  k1 = k1  k2 = k2  s1 = s1  s2 = s2  a1 = a1  a2 = a2
  Keys = {k1}
  Sessions = {s1}
  SessionOf <- OneCart
  TotalOf <- OneTotal
  Amounts = {a1, a2}
  Calls = {c1, c2}
  OrderIds = {o1}
  PaymentIds = {p1, p2}
  None = None
  TTL = 1
  MaxTime = 2
  LostResponses = FALSE
  Restarts = TRUE
SYMMETRY Symmetry
INVARIANTS TypeOK CapturedIsPaid TruthfulReply HistoryOnce
PROPERTY KeepsPromise FreshCapture
