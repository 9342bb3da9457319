SPECIFICATION Spec
CONSTANTS
  Users = {u1, u2, stranger}
  Registered = {u1, u2}
  Currencies = {usd, eur}
  u1 = u1
  u2 = u2
  stranger = stranger
  usd = usd
  eur = eur
  Expenses = {e1}
  Bills <- SomeBills
  Payments <- SomePayments
  Requests = {r1, r2}
  NoRow = NoRow
  NoOne = NoOne
  MaxCrashes = 0
INVARIANT ReadNetsToZero
CHECK_DEADLOCK FALSE
