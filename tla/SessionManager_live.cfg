\* A client that asks for credentials: c1 prompts and reconnects, c2 is refused by start_session.
CONSTANTS
  c1 = c1
  c2 = c2
  w1 = w1
  w2 = w2
  NoConn = NoConn
  NoWorker = NoWorker
  Conns = {c1, c2}
  AutoConn = NoConn
  Prompting = {c1}
  Incomplete = {c2}
  Reconnecting = {c1}
  HasBar = TRUE
  Workers = {w1, w2}
  MaxVersion = 1
  MaxCrashes = 1
\* A session whose thread cannot be started leaves a manager that waits for ever.
CHECK_DEADLOCK FALSE
SPECIFICATION FairSpec
INVARIANTS
  RefusalForgetsCredentials
PROPERTIES
  CancelCompletes
  SessionEndReported
  UpdateEventuallyUsed
