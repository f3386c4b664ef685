\* Three calls for one cart, on the worst network.
SPECIFICATION Spec
CONSTANTS
  k1 = k1  k2 = k2  s1 = s1  s2 = s2  a1 = a1  a2 = a2
  Keys = {k1}
  Sessions = {s1}
  SessionOf <- OneCart
  TotalOf <- OneTotal
  Amounts = {a1}
  Requests = {r1, r2, r3}
  OrderIds = {o1, o2, o3}
  PaymentIds = {p1}
  None = None
  MaxPolls = 1
  LateCreate = TRUE
  StaleLookup = TRUE
SYMMETRY Symmetry
INVARIANTS TypeOK OnePoster NoStrandedClaim SameOrderReturned
PROPERTY KeepsPromise
