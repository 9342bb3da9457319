SPECIFICATION Spec
CONSTANTS
  Users = {u1, u2, stranger}
  Registered = {u1, u2}
  Currencies = {usd, eur}
  u1 = u1
  u2 = u2
  stranger = stranger
  usd = usd
  eur = eur
  Expenses = {e1, e2}
  Bills <- SomeBills
  Payments <- SomePayments
  Requests = {r1, r2, r3}
  NoRow = NoRow
  NoOne = NoOne
  MaxCrashes = 1
SYMMETRY Symmetry
INVARIANTS
  TypeOK
  WholeExpenses
  LedgerNetsToZero
  ReadUnbalancedOnlyByEdits
PROPERTIES
  NoResurrection
  ImplementsAtomicLedger
CHECK_DEADLOCK FALSE
