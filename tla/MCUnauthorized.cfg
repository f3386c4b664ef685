\* A later call finds the order whose response was lost.
SPECIFICATION Spec
CONSTANTS
  k1 = k1  k2 = k2  s1 = s1  s2 = s2  a1 = a1  a2 = a2
  Keys = {k1}
  Sessions = {s1}
  SessionOf <- OneCart
  TotalOf <- OneTotal
  Amounts = {a1}
  Requests = {r1, r2}
  OrderIds = {o1, o2}
  PaymentIds = {p1}
  None = None
  MaxPolls = 1
  LateCreate = FALSE
  StaleLookup = FALSE
SYMMETRY Symmetry
INVARIANTS OrderIsAuthorized
