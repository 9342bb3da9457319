SPECIFICATION Spec
CONSTANTS
  Handlers = {h1, h2}
  Uploads = {h1}
  balances = balances
  activity = activity
  Regions = {balances, activity}
  Queries <- PageQueries
  BufCap = 1
  WireCap = 1
  MaxFaults = 0
INVARIANTS
  SettledPageIsCurrent
CHECK_DEADLOCK FALSE
