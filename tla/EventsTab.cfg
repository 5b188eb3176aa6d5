SPECIFICATION TabSpec
CONSTANTS
  Tabs = {"Events"}
  forwardChanDepth = 1
  Tails = {0, 2}
  MaxLog = 3
  MAX_RECONNECT_ATTEMPTS = 0
  initialTail = 2
  appLogTailLines = 2
  MaxSockets = 1
  e1 = e1  e2 = e2  e3 = e3
  app1 = app1  app2 = app2
  ClusterEvents = {e1, e2, e3}
  Apps = {app1, app2}
  NoApp = NoApp
  Derived <- MCDerived
  Transition <- MCTransition
  appEventLimit = 1
  MaxClock = 2
  r1 = r1  r2 = r2
  Requests = {r1, r2}
  Kinds = {"page", "upload", "public", "watch"}
  Users = {"alice"}
  Peers = {"ip:1"}
  Environments <- MCEnvironments
  rateLimitBurst = 1
  rateLimitIdleTimeout = 1
  requestTimeout = 1
  shutdownTimeout = 1
  MaxLate = 1
INVARIANTS OnlyOwnRows RowsStaleOnlyByNamedLoss
PROPERTY TabConverges
CHECK_DEADLOCK FALSE
