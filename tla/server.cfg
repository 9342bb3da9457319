SPECIFICATION Spec
CONSTANTS
  r1 = r1
  r2 = r2
  r3 = r3
  b1 = b1
  b2 = b2
  e1 = e1
  Requests = {r1, r2, r3}
  Browsers = {b1, b2}
  Emails = {e1}
  NoToken = NoToken
  Mixes <- AccountMixes
  Tables = 2
  MaxFaults = 2
INVARIANTS
  TypeOK
  SchemaCompleteWhenServing
  LoginSurvives
PROPERTIES
  ComesUp
  StopsWhenAsked
CHECK_DEADLOCK FALSE
