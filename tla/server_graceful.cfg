SPECIFICATION Spec
CONSTANTS
  r1 = r1
  r2 = r2
  r3 = r3
  b1 = b1
  b2 = b2
  e1 = e1
  Requests = {r1}
  Browsers = {b1}
  Emails = {e1}
  NoToken = NoToken
  Mixes <- OneSignup
  Tables = 1
  MaxFaults = 1
PROPERTY ShutdownDrains
CHECK_DEADLOCK FALSE
