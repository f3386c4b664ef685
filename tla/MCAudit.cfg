\* Two processes with two threads each, two attempts, one edit.
SPECIFICATION Spec
CONSTANTS
  w1 = w1
  w2 = w2
  w3 = w3
  w4 = w4
  p1 = p1
  p2 = p2
  Writers = {w1, w2, w3, w4}
  Processes = {p1, p2}
  ProcessOf <- MCProcessOf
  Retries = 2
  Tampering = TRUE
  Keys = {k1, k2}
  ConcurrentBoot = FALSE
  None = None
SYMMETRY Symmetry
INVARIANTS VerdictIsTrue RefusedOnlyByOthers ReceiptVerifies ReceiptIsAudited
CHECK_DEADLOCK FALSE
