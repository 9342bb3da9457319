SPECIFICATION SettleSpec
CONSTANTS
  Users = {u1, u2, u3, u4}
  MaxNet = 4
  NetBalances <- SmallNets
INVARIANTS
  TypeOK
  NoPairTwice
  TransferBound
  LargestFirst
  ClearsDebt
  PlanStaysGood
PROPERTIES
  ImplementsPlan
  Terminates
CHECK_DEADLOCK FALSE
