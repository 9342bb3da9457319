SPECIFICATION Spec
CONSTANTS
  Users = {u1, u2, u3, u4, u5}
  MaxNet = 4
  NetBalances <- BalancedNets
INVARIANT MinimalPlan
CHECK_DEADLOCK FALSE
