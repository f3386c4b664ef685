\* The whole ledger, any caller, any order.
SPECIFICATION Spec
CONSTANTS
  Keys = {k1, k2}
  OrderIds = {o1, o2}
  PaymentIds = {p1, p2}
  Amounts = {a1, a2}
  None = None
SYMMETRY Symmetry
INVARIANTS TypeOK OneWinner OneLicence
PROPERTY RowIsAppendOnly
CHECK_DEADLOCK TRUE
