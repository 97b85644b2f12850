\* c1 connects by itself, c2 asks for credentials: their sessions can overlap.
CONSTANTS
  c1 = c1
  c2 = c2
  w1 = w1
  w2 = w2
  NoConn = NoConn
  NoWorker = NoWorker
  Conns = {c1, c2}
  AutoConn = c1
  Prompting = {c2}
  Incomplete = {}
  Reconnecting = {c1}
  HasBar = TRUE
  Workers = {w1, w2}
  MaxVersion = 1
  MaxCrashes = 0
\* A session whose thread cannot be started leaves a manager that waits for ever.
CHECK_DEADLOCK FALSE
SPECIFICATION Spec
INVARIANT CancelReachesClient
