\* The server is killed inside the webhook handler.
SPECIFICATION Spec
CONSTANTS
  k1 = k1  k2 = k2  s1 = s1  s2 = s2  a1 = a1  a2 = a2
  Keys = {k1}
  Sessions = {s1}
  SessionOf <- OneCart
  TotalOf <- OneTotal
  Amounts = {a1, a2}
  Calls = {c1}
  OrderIds = {o1}
  PaymentIds = {p1}
  None = None
  TTL = 1
  MaxTime = 0
  LostResponses = FALSE
  Restarts = TRUE
SYMMETRY Symmetry
INVARIANTS DeliveryActedOn
