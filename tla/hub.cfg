SPECIFICATION Spec
CONSTANTS
  Publishers = {p1, p2}
  Subscribers = {s1, s2}
  Topics = {g, u}
  BufCap = 1
  p1 = p1
  p2 = p2
  g = g
  u = u
  Script <- Requests
INVARIANTS
  TypeOK
  NoSendOnClosed
  RegistryExact
  PublisherOrder
PROPERTIES
  NoWriteDuringRange
  ImplementsPubSub
  CallsReturn
CHECK_DEADLOCK FALSE
