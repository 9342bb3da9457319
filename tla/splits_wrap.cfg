SPECIFICATION Spec
CONSTANTS
  Users = {u1, u2, u3}
  u1 = u1
  u2 = u2
  u3 = u3
  Calls <- FourBits
  MaxInt = 7
  FullBps = 6
INVARIANT AlwaysReconciled
CHECK_DEADLOCK FALSE
