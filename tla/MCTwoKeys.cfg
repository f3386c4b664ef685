\* Two processes that may start at the same time on an empty table.
SPECIFICATION Spec
CONSTANTS
  w1 = w1
  w2 = w2
  w3 = w3
  w4 = w4
  p1 = p1
  p2 = p2
  Writers = {w1, w2, w3, w4}
  Processes = {p1, p2}
  ProcessOf <- MCProcessOf
  Retries = 2
  Tampering = TRUE
  Keys = {k1, k2}
  ConcurrentBoot = TRUE
  None = None
SYMMETRY Symmetry
INVARIANTS ReceiptVerifies
CHECK_DEADLOCK FALSE
