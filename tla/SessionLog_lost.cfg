CONSTANTS
  Connections = {k1, k2, k3}
  Inits = {i1, i2}
  Requests = {r1}
  NoConnection = NoConnection
SPECIFICATION SessionLogSpec
INVARIANT SessionsKept
CHECK_DEADLOCK FALSE
