\* A kiosk with stored credentials: c1 connects by itself and reconnects.
CONSTANTS
  c1 = c1
  c2 = c2
  w1 = w1
  w2 = w2
  NoConn = NoConn
  NoWorker = NoWorker
  Conns = {c1, c2}
  AutoConn = c1
  Prompting = {}
  Incomplete = {}
  Reconnecting = {c1}
  HasBar = TRUE
  Workers = {w1, w2}
  MaxVersion = 2
  MaxCrashes = 1
\* A session whose thread cannot be started leaves a manager that waits for ever.
CHECK_DEADLOCK FALSE
SPECIFICATION Spec
SYMMETRY Symmetry
INVARIANTS
  UpdateNotForgotten
  WindowWillReturn
  OneSession
  CancelReachesClient
  OneAutomaticPath
  CountdownDiesWithReload
PROPERTIES
  DisconnectIsFinal
  ImplementsLifecycle
