SPECIFICATION EditSpec
CONSTANTS
  Users = {u1, u2, u3}
  u1 = u1
  u2 = u2
  u3 = u3
  Calls <- SixBits
  MaxInt = 31
  FullBps = 5
  MinorUnits = 2
  NotStored = NotStored
INVARIANTS
  TypeOK
  EveryPennyHasATaker
  LargestRemainder
  FairRounding
  SharesSumToTotal
  UnweightedFormKeepsShares
  WeightsFormKeepsOrder
CHECK_DEADLOCK FALSE
