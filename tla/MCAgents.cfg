CONSTANTS
  s1 = s1
  s2 = s2
  s3 = s3
  d1 = d1
  d2 = d2
  Conns = {c1, c2}
  Controls = {w1}
  MaxPending = 2
  MaxPayload = 2
  Tunnels = {1}
  Sessions = {s1, s2, s3}
  Devices = {d1, d2}
  Lists = {{d1}, {d1, d2}}
  Ports = {1, 2}
  MaxAgents = 2
SPECIFICATION MCSpec
CHECK_DEADLOCK FALSE
INVARIANT PortsNotShared
INVARIANT TableIsTrue
INVARIANT QueuesAccounted
INVARIANT NoMonopoly
INVARIANT SleepersAreOwed
PROPERTY BlockedReaderGoesOn
PROPERTY AdbConverges
