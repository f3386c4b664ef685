\* Three threads, two capabilities, a clock that runs past the TTL.
SPECIFICATION CapabilitySpec
CONSTANTS
  Caps = {c1, c2}
  Operations = {op1, op2}
  Threads = {t1, t2, t3}
  TTL = 1
  MaxTime = 2
  Null = Null
SYMMETRY Symmetry
INVARIANTS CapabilityTypeOK SpentOnce ReasonIsTrue
CHECK_DEADLOCK FALSE
